---------------------------- MODULE Spec2Model ----------------------------
(***************************************************************************)
(* A model of fprettify (src/fprettify/__init__.py): the scope/indent      *)
(* tracker F90Indenter, the continuation aligner F90Aligner, the relevant  *)
(* parts of format_single_fline and the per-file loop of reformat_ffile.   *)
(*                                                                         *)
(* Text is modelled at two levels.  The statement classifier works on a    *)
(* logical line given as a sequence of tokens (words and one parenthesised *)
(* group "(c)"), the text being the tokens joined by single blanks; each   *)
(* regular expression of the catalogue is an operator on such a sequence.  *)
(* The aligner and the formatter work on sequences of one-character        *)
(* strings.                                                                *)
(***************************************************************************)
EXTENDS Integers, Sequences, FiniteSets, TLC

(***************************************************************************)
(* Generic helpers.                                                        *)
(***************************************************************************)
Last(s) == s[Len(s)]

Front(s) == SubSeq(s, 1, Len(s) - 1)

Max(a, b) == IF a >= b THEN a ELSE b

Min(a, b) == IF a <= b THEN a ELSE b

(***************************************************************************)
(* Statement classifier: the regular expressions on token sequences.       *)
(***************************************************************************)
\* \w+ : a word token (keywords are words as well)
IsWord(t) == t \notin {"(c)", ";"}

\* \(.+\) : a parenthesised group reaching from token i to token j
IsParen(l, i, j) == i <= j /\ j <= Len(l) /\ l[i] = "(c)" /\ l[j] = "(c)"

\* EOL_STR = \s*;?\s*$ : the line without its trailing statement separator
StripEol(l) == IF Len(l) > 0 /\ Last(l) = ";" THEN Front(l) ELSE l

\* END\s*KW(\s+\w+)? EOL
EndOf(kw, l) ==
    LET b == StripEol(l)
    IN  /\ Len(b) \in {2, 3}
        /\ b[1] = "END" /\ b[2] = kw
        /\ (Len(b) = 3 => IsWord(b[3]))

IF_RE(l) ==
    LET b == StripEol(l)
    IN  Len(b) >= 3 /\ b[1] = "IF" /\ IsParen(b, 2, Len(b) - 1) /\ Last(b) = "THEN"

ELSE_RE(l) ==
    LET b == StripEol(l)
    IN  \/ b = <<"ELSE">>
        \/ /\ Len(b) >= 4 /\ b[1] = "ELSE" /\ b[2] = "IF"
           /\ IsParen(b, 3, Len(b) - 1) /\ Last(b) = "THEN"

ENDIF_RE(l) == EndOf("IF", l)

DO_RE(l) == Len(l) >= 1 /\ l[1] = "DO"

ENDDO_RE(l) == EndOf("DO", l)

SELCASE_RE(l) ==
    LET b == StripEol(l)
    IN  Len(b) >= 3 /\ b[1] = "SELECT" /\ b[2] = "CASE" /\ IsParen(b, 3, Len(b))

CASE_RE(l) ==
    LET b == StripEol(l)
    IN  /\ Len(b) >= 2 /\ b[1] = "CASE"
        /\ (b = <<"CASE", "DEFAULT">> \/ IsParen(b, 2, Len(b)))

ENDSEL_RE(l) == StripEol(l) = <<"END", "SELECT">>

\* ^([^"'!]* )?KW\s+\w+\s*(\(.*\))? EOL : any prefix may precede the keyword
ProcHeader(kw, l) ==
    LET b == StripEol(l)
    IN  \E i \in 1..Len(b) :
            /\ b[i] = kw
            /\ i + 1 <= Len(b) /\ IsWord(b[i + 1])
            /\ (i + 1 = Len(b) \/ IsParen(b, i + 2, Len(b)))

SUBR_RE(l) == ProcHeader("SUBROUTINE", l)

ENDSUBR_RE(l) == EndOf("SUBROUTINE", l)

FCT_RE(l) == ProcHeader("FUNCTION", l)

ENDFCT_RE(l) == EndOf("FUNCTION", l)

MOD_RE(l) ==
    LET b == StripEol(l)
    IN  Len(b) = 2 /\ b[1] = "MODULE" /\ IsWord(b[2])

ENDMOD_RE(l) == EndOf("MODULE", l)

TYPE_RE(l) ==
    LET b == StripEol(l)
    IN  Len(b) = 2 /\ b[1] = "TYPE" /\ IsWord(b[2])

ENDTYPE_RE(l) == EndOf("TYPE", l)

PROG_RE(l) ==
    LET b == StripEol(l)
    IN  Len(b) = 2 /\ b[1] = "PROGRAM" /\ IsWord(b[2])

ENDPROG_RE(l) == EndOf("PROGRAM", l)

\* ^([^"'!]* )?INTERFACE(\s+\w+)? EOL : any prefix may precede the keyword
INTERFACE_RE(l) ==
    LET b == StripEol(l)
    IN  \E i \in 1..Len(b) :
            /\ b[i] = "INTERFACE"
            /\ (i = Len(b) \/ (i + 1 = Len(b) /\ IsWord(b[i + 1])))

ENDINTERFACE_RE(l) == EndOf("INTERFACE", l)

CONTAINS_RE(l) == StripEol(l) = <<"CONTAINS">>

ENUM_RE(l) ==
    LET b == StripEol(l)
    IN  Len(b) = 2 /\ b[1] = "ENUM" /\ IsWord(b[2])

ENDENUM_RE(l) == EndOf("ENUM", l)

\* the block kinds are the indices of the three tables
Kinds == 0..9

NEW_SCOPE_RE(n, l) ==
    CASE n = 0 -> IF_RE(l)
      [] n = 1 -> DO_RE(l)
      [] n = 2 -> SELCASE_RE(l)
      [] n = 3 -> SUBR_RE(l)
      [] n = 4 -> FCT_RE(l)
      [] n = 5 -> MOD_RE(l)
      [] n = 6 -> PROG_RE(l)
      [] n = 7 -> INTERFACE_RE(l)
      [] n = 8 -> TYPE_RE(l)
      [] n = 9 -> ENUM_RE(l)

\* None entries (DO, INTERFACE, ENUM) never match
CONTINUE_SCOPE_RE(n, l) ==
    CASE n = 0 -> ELSE_RE(l)
      [] n = 2 -> CASE_RE(l)
      [] n \in {3, 4, 5, 6, 8} -> CONTAINS_RE(l)
      [] OTHER -> FALSE

END_SCOPE_RE(n, l) ==
    CASE n = 0 -> ENDIF_RE(l)
      [] n = 1 -> ENDDO_RE(l)
      [] n = 2 -> ENDSEL_RE(l)
      [] n = 3 -> ENDSUBR_RE(l)
      [] n = 4 -> ENDFCT_RE(l)
      [] n = 5 -> ENDMOD_RE(l)
      [] n = 6 -> ENDPROG_RE(l)
      [] n = 7 -> ENDINTERFACE_RE(l)
      [] n = 8 -> ENDTYPE_RE(l)
      [] n = 9 -> ENDENUM_RE(l)


(***************************************************************************)
(* The logical lines the tracker is run on, and the catalogue applied to   *)
(* them.                                                                   *)
(***************************************************************************)
\* the logical lines of the stream: their tokens and their number of fragments
\* a statement with a statement label
LabelledLine == <<"10", "x">>

LinePool ==
    { [toks |-> <<"x">>, nfrag |-> 2],
      [toks |-> <<"IF", "(c)", "THEN">>, nfrag |-> 1],
      [toks |-> <<"ELSE">>, nfrag |-> 1],
      [toks |-> <<"END", "IF">>, nfrag |-> 1],
      [toks |-> <<"DO">>, nfrag |-> 1],
      [toks |-> <<"END", "DO">>, nfrag |-> 1],
      [toks |-> <<"MODULE", "INTERFACE">>, nfrag |-> 1],
      [toks |-> <<"END", "INTERFACE">>, nfrag |-> 1],
      [toks |-> <<"END", "MODULE">>, nfrag |-> 1],
      [toks |-> <<"END", "MODULE", "INTERFACE">>, nfrag |-> 1] }

\* the patterns of the three lists applied to every line of the pool
Catalogue ==
    [f_line \in {l.toks : l \in LinePool} \cup {LabelledLine} |->
        [n \in Kinds |-> [new |-> NEW_SCOPE_RE(n, f_line),
                          con |-> CONTINUE_SCOPE_RE(n, f_line),
                          end |-> END_SCOPE_RE(n, f_line)]]]

(***************************************************************************)
(* inspect_ffile_format: the indent step suggested for each logical line.  *)
(***************************************************************************)
\* the default of the option --indent
DefaultIndent == 3

\* a step that ignores blocked do/if constructs
ReqIndentUnblocked(f_line, offset, prev_offset, indent_size) ==
    IF indent_size <= 0 THEN offset - prev_offset ELSE indent_size

\* the entry appended to `indents` for a line at `offset` that follows a
\* line at `prev_offset`
ReqIndent(f_line, offset, prev_offset, indent_size) ==
    IF indent_size <= 0
    THEN offset - prev_offset
    ELSE IF prev_offset /= offset \/ (~IF_RE(f_line) /\ ~DO_RE(f_line))
         THEN indent_size
         ELSE offset - prev_offset

(***************************************************************************)
(* F90Indenter.process_lines_of_fline.                                     *)
(***************************************************************************)
\* the loop over NEW_SCOPE_RE: every matching kind is appended to scopes
RECURSIVE NewLoop(_, _, _)
NewLoop(n, f_line, sc) ==
    IF n > 9 THEN sc
    ELSE NewLoop(n + 1, f_line,
                 IF Catalogue[f_line][n].new /\ ~Catalogue[f_line][n].end
                 THEN Append(sc, n) ELSE sc)

\* the loop over CONTINUE_SCOPE_RE
IsCon(f_line) == \E n \in Kinds : Catalogue[f_line][n].con

ValidCon(f_line, sc) == Len(sc) > 0 /\ Catalogue[f_line][Last(sc)].con

\* the loop over END_SCOPE_RE: every match pops scopes when it is not empty
RECURSIVE EndLoop(_, _, _)
EndLoop(n, f_line, st) ==
    IF n > 9 THEN st
    ELSE EndLoop(n + 1, f_line,
                 IF Catalogue[f_line][n].end
                 THEN IF Len(st.sc) > 0
                      THEN [sc |-> Front(st.sc), is_end |-> TRUE, what_end |-> n,
                            valid_end |-> st.valid_end \/ Last(st.sc) = n]
                      ELSE [st EXCEPT !.is_end = TRUE, !.what_end = n]
                 ELSE st)

\* line_indents before the shift: 0 for the first fragment, the aligner's (or
\* the manual) offset for the others
RawIndents(br_indent_list) ==
    [pos \in 1..Len(br_indent_list) |-> IF pos = 1 THEN 0 ELSE br_indent_list[pos]]

Shift(line_indents, by) == [pos \in 1..Len(line_indents) |-> line_indents[pos] + by]

\* a continuation keyword shifted like the body of its block
ValidConBranchBody(raw, ind) == Shift(raw, Last(ind))

\* the branch of the valid continuation: shift by indents[-2]
ValidConBranch(raw, ind) == Shift(raw, ind[Len(ind) - 1])

\* a valid close that leaves IndentStack as it is
ValidEndBranchKeep(raw, ind) ==
    [line_indents |-> Shift(raw, ind[Len(ind) - 1]), indents |-> ind]

\* the branch of the valid close: shift by indents[-2], then pop
ValidEndBranch(raw, ind) ==
    [line_indents |-> Shift(raw, ind[Len(ind) - 1]), indents |-> Front(ind)]

\* the first half of the call: the three loops over the patterns, which
\* update scopes and set the flags of the line
Classify(sc0, f_line) ==
    LET sc1 == NewLoop(0, f_line, sc0)
        e   == EndLoop(0, f_line, [sc |-> sc1, is_end |-> FALSE,
                                   what_end |-> -1, valid_end |-> FALSE])
    IN  [scopes |-> e.sc,
         is_new |-> Len(sc1) > Len(sc0), n_new |-> Len(sc1) - Len(sc0),
         is_con |-> IsCon(f_line), valid_con |-> ValidCon(f_line, sc1),
         is_end |-> e.is_end, valid_end |-> e.valid_end, what_end |-> e.what_end]

\* the second half of the call: the branches that set line_indents and
\* update indents; `failed` is the IndexError of indents[-2] on a stack that
\* holds one frame only
process_lines_of_fline(c, ind0, br_indent_list, rel_ind) ==
    LET raw  == RawIndents(br_indent_list)
        base == [scopes |-> c.scopes, indents |-> ind0, line_indents |-> raw,
                 is_new |-> c.is_new, n_new |-> c.n_new,
                 is_con |-> c.is_con, valid_con |-> c.valid_con,
                 is_end |-> c.is_end, valid_end |-> c.valid_end,
                 what_end |-> c.what_end, failed |-> FALSE]
    IN  IF c.is_new
        THEN [base EXCEPT !.line_indents = Shift(raw, Last(ind0)),
                          !.indents = Append(ind0, rel_ind + Last(ind0))]
        ELSE IF c.is_con
        THEN IF ~c.valid_con THEN base
             ELSE IF Len(ind0) < 2 THEN [base EXCEPT !.failed = TRUE]
             ELSE [base EXCEPT !.line_indents = ValidConBranch(raw, ind0)]
        ELSE IF c.is_end
        THEN IF ~c.valid_end THEN base
             ELSE IF Len(ind0) < 2 THEN [base EXCEPT !.failed = TRUE]
             ELSE [base EXCEPT !.line_indents = ValidEndBranch(raw, ind0).line_indents,
                               !.indents = ValidEndBranch(raw, ind0).indents]
        ELSE [base EXCEPT !.line_indents = Shift(raw, Last(ind0))]

\* F90Indenter.get_fline_indent
get_fline_indent(ind) == Last(ind)


(***************************************************************************)
(* Statements for the aligner and the formatter.  A logical line is a      *)
(* sequence of items: names, assignment operators, delimiters, and "&" for *)
(* a line break between two fragments.  The formatter turns it into the    *)
(* text of its fragments, sequences of one-character strings.              *)
(***************************************************************************)
Names == {"x"}

Ops == {"=", "=>"}

Openers == {"(", "["}

Closers == {")", "]"}

Spaces(n) == [i \in 1..n |-> " "]

\* the characters of an item
Chars(item) ==
    IF item = "=>" THEN <<"=", ">">>
    ELSE IF item = "::" THEN <<":", ":">>
    ELSE <<item>>

\* VAR_DECL_RE.match(f_line) or PUBLIC_RE.match(f_line): the logical line is a
\* declaration, here one whose first item is followed by "::"
IsDecl(statement) == Len(statement) > 1 /\ statement[2] = "::"

IsBreak(item) == item = "&"

\* the logical line: the items without the line breaks
ItemsOf(statement) == SelectSeq(statement, LAMBDA it : it /= "&")

\* format_single_fline, the counter `level` after the first n items
RECURSIVE LevelAfter(_, _)
LevelAfter(items, n) ==
    IF n = 0 THEN 0
    ELSE LET l == LevelAfter(items, n - 1)
         IN  IF items[n] \in Openers THEN l + 1
             ELSE IF items[n] \in Closers THEN Max(l - 1, 0)
             ELSE l

\* format_single_fline: the warnings it logs, one for each closing delimiter
\* met at level 0 and one if the level is not 0 at the end
RECURSIVE UnpairedClosers(_, _)
UnpairedClosers(items, n) ==
    IF n = 0 THEN 0
    ELSE UnpairedClosers(items, n - 1) +
         (IF items[n] \in Closers /\ LevelAfter(items, n - 1) = 0 THEN 1 ELSE 0)

FormatWarnings(items) ==
    UnpairedClosers(items, Len(items)) +
    (IF LevelAfter(items, Len(items)) /= 0 THEN 1 ELSE 0)

\* format_single_fline: spacey[1], the blanks around an assignment operator
Spacey1(whitespace) == IF whitespace = 0 THEN 0 ELSE 1

\* format_single_fline: the blanks it leaves between item i - 1 and item i;
\* the blanks around the "::" of a declaration are those of the source, one
\* on either side in the statements here
Gap(items, i, whitespace) ==
    LET A == items[i - 1]
        B == items[i]
        top == LevelAfter(items, i - 1) = 0
    IN  IF A = "::" \/ B = "::" THEN 1
        ELSE IF A \in Ops \/ B \in Ops
        THEN (IF top THEN Spacey1(whitespace) ELSE 0)
        ELSE IF A \in Closers THEN (IF B \in Closers THEN 0 ELSE 1)
        ELSE IF B \in Openers THEN 0
        ELSE IF A \in Names /\ B \in Names THEN 1
        ELSE 0

\* format_single_fline: lines_out, each fragment but the last followed by
\* ampersand_sep blanks and the continuation marker; reformat_ffile then
\* appends the newline.  k runs over the statement, j counts the items.
RECURSIVE Fragments(_, _, _, _, _, _)
Fragments(statement, k, j, cur, acc, whitespace) ==
    IF k > Len(statement) THEN Append(acc, cur \o <<"\n">>)
    ELSE IF IsBreak(statement[k])
    THEN Fragments(statement, k + 1, j, <<>>,
                   Append(acc, cur \o Spaces(1) \o <<"&", "\n">>), whitespace)
    ELSE Fragments(statement, k + 1, j + 1,
                   cur \o (IF cur = <<>> THEN <<>>
                           ELSE Spaces(Gap(ItemsOf(statement), j + 1, whitespace)))
                       \o Chars(statement[k]),
                   acc, whitespace)

format_single_fline(statement, whitespace) ==
    Fragments(statement, 1, 0, <<>>, <<>>, whitespace)

(***************************************************************************)
(* F90Aligner.                                                             *)
(***************************************************************************)
\* line[pos:pos + 2] matched by DEL_OPEN_RE / DEL_CLOSE_RE at (1-based) p:
\* the delimiter token, or "" if there is none
DelOpen(line, p) ==
    IF line[p] = "(" THEN (IF p < Len(line) /\ line[p + 1] = "/" THEN "(/" ELSE "(")
    ELSE IF line[p] = "[" THEN "["
    ELSE ""

DelClose(line, p) ==
    IF line[p] = "/" /\ p < Len(line) /\ line[p + 1] = ")" THEN "/)"
    ELSE IF line[p] = ")" THEN ")"
    ELSE IF line[p] = "]" THEN "]"
    ELSE ""

DelLen(d) == IF d \in {"(/", "/)"} THEN 2 ELSE 1

\* the test of a closing delimiter against the delimiter it closes
ValidPair(open, close) ==
    \/ open = "(" /\ close = ")"
    \/ open = "(/" /\ close = "/)"
    \/ open = "[" /\ close = "]"

\* the index of the first character that is not a blank, from p on
RECURSIVE SkipBlanks(_, _)
SkipBlanks(w, p) == IF p <= Len(w) /\ w[p] = " " THEN SkipBlanks(w, p + 1) ELSE p

\* REL_OP_RE.match on the characters around the "=" at p (the symbolic
\* operators ==, /=, <, <=, >, >=)
REL_OP_RE_match(line, p) ==
    LET w == SubSeq(line, Max(p - 1, 1), Min(p + 1, Len(line)))
        q == SkipBlanks(w, 1)
        two == IF q + 1 <= Len(w) THEN <<w[q], w[q + 1]>> ELSE <<>>
    IN  /\ q <= Len(w)
        /\ \/ two \in {<<"=", "=">>, <<"/", "=">>, <<"<", "=">>, <<">", "=">>}
           \/ w[q] = "<"
           \/ w[q] = ">" /\ (q = 1 \/ w[q - 1] /= "=")

\* the line without the white space at its end
RECURSIVE RStripWs(_)
RStripWs(line) ==
    IF Len(line) > 0 /\ Last(line) \in {" ", "\n"} THEN RStripWs(Front(line)) ELSE line

\* re.search(X + r"\s*" + LINEBREAK_STR, line) for the lines without a
\* comment: the text before the continuation marker
BeforeBreak(line) ==
    LET t == RStripWs(line)
    IN  IF Len(t) > 0 /\ Last(t) = "&" THEN RStripWs(Front(t)) ELSE <<>>

AssignBeforeBreak(line) ==
    LET t == BeforeBreak(line)
    IN  /\ Len(t) > 0
        /\ \/ Last(t) = "="
           \/ Len(t) > 1 /\ Last(t) = ">" /\ t[Len(t) - 1] = "="

OpenBeforeBreak(line) ==
    LET t == BeforeBreak(line)
    IN  /\ Len(t) > 0
        /\ \/ Last(t) \in {"(", "["}
           \/ Len(t) > 1 /\ Last(t) = "/" /\ t[Len(t) - 1] = "("

\* __align_line_continuations: one step of the loop over the characters of
\* the fragment.  st holds indent_list, level, the locals pos_eq, pos_ldelim,
\* ldelim, end_of_delim, rel_ind, and the warnings and the raise so far.
AlignChar(line, p, is_decl, st) ==
    LET pos == p - 1
        free == pos /= st.end_of_delim
        dopen == IF free THEN DelOpen(line, p) ELSE ""
        dclose == IF free THEN DelClose(line, p) ELSE ""
        s1 == IF dopen /= ""
              THEN [st EXCEPT !.end_of_delim = pos + DelLen(dopen) - 1,
                              !.level = @ + 1,
                              !.indent_list = Append(@, pos + DelLen(dopen) + st.rel_ind),
                              !.pos_ldelim = Append(@, pos),
                              !.ldelim = Append(@, dopen)]
              ELSE st
        s2 == IF dclose /= ""
              THEN LET a == [s1 EXCEPT !.end_of_delim = pos + DelLen(dclose) - 1]
                       b == IF a.level > 0
                            THEN [a EXCEPT !.level = @ - 1, !.indent_list = Front(@)]
                            ELSE [a EXCEPT !.warnings = @ + 1]
                   IN  IF Len(b.pos_ldelim) > 0
                       THEN [b EXCEPT !.pos_ldelim = Front(@), !.ldelim = Front(@),
                                      !.warnings = @ + (IF ValidPair(Last(b.ldelim), dclose)
                                                        THEN 0 ELSE 1)]
                       ELSE b
              ELSE s1
    IN  IF s2.level /= 0 THEN s2
        ELSE IF ~is_decl /\ line[p] = "="
        THEN IF REL_OP_RE_match(line, p) THEN s2
             ELSE IF s2.pos_eq > 0 THEN [s2 EXCEPT !.fatal = TRUE]
             ELSE LET is_pointer == IF line[p + 1] = ">" THEN 1 ELSE 0
                      s3 == [s2 EXCEPT !.pos_eq = pos + 1]
                  IN  IF AssignBeforeBreak(line) THEN s3
                      ELSE [s3 EXCEPT !.indent_list =
                                Append(@, s3.pos_eq + 1 + is_pointer + Last(s3.indent_list))]
        ELSE IF is_decl /\ line[p] = ":" /\ p < Len(line) /\ line[p + 1] = ":"
        THEN IF Len(BeforeBreak(line)) > 1 /\ Last(BeforeBreak(line)) = ":"
                /\ BeforeBreak(line)[Len(BeforeBreak(line)) - 1] = ":"
             THEN s2
             ELSE [s2 EXCEPT !.indent_list = Append(@, pos + 3 + Last(s2.indent_list))]
        ELSE s2

RECURSIVE AlignLoop(_, _, _, _)
AlignLoop(line, p, is_decl, st) ==
    IF p > Len(line) \/ st.fatal THEN st
    ELSE CHOOSE r \in { AlignLoop(line, p + 1, is_decl, s) :
                            s \in { AlignChar(line, p, is_decl, st) } } : TRUE

\* indent_list[-1] = v
SetLast(indent_list, v) == [indent_list EXCEPT ![Len(indent_list)] = v]

\* mutant of DontAlign: the entry of the opening delimiter is kept
DoAlign(indent_list) == indent_list
\* __align_line_continuations, "Don't align if delimiter opening directly
\* before line break": the last entry becomes the entry below it
DontAlign(indent_list) ==
    SetLast(indent_list,
            IF Len(indent_list) > 1 THEN indent_list[Len(indent_list) - 1] ELSE 0)

\* mutant of DefaultIndentOf: the step is added to the last entry
AddedIndentOf(indent_list, indent_size) ==
    SetLast(indent_list, Last(indent_list) + indent_size)
\* __align_line_continuations, the last statement: a last entry of 0
\* becomes indent_size
DefaultIndentOf(indent_list, indent_size) ==
    IF Last(indent_list) = 0 THEN SetLast(indent_list, indent_size) ELSE indent_list

\* __align_line_continuations, before the loop: the lists kept from the
\* fragment before and the locals of this fragment
StartOfFragment(al) ==
    [indent_list |-> al.br_indent_list, level |-> al.level,
     pos_eq |-> 0, pos_ldelim |-> <<>>, ldelim |-> <<>>,
     end_of_delim |-> -1, rel_ind |-> Last(al.br_indent_list),
     warnings |-> al.warnings, fatal |-> FALSE]

\* __align_line_continuations on one fragment; al is the aligner: level,
\* br_indent_list, line_indents, with the warnings and the raise so far
align_line_continuations(al, line, is_decl, indent_size) ==
    LET st0 == StartOfFragment(al)
        \* the list after the rule for an opening delimiter before the break
        L1(st1) == IF st1.level /= 0 /\ OpenBeforeBreak(line)
                   THEN DontAlign(st1.indent_list)
                   ELSE st1.indent_list
        L2(l1)  == DefaultIndentOf(l1, indent_size)
    IN  CHOOSE r \in
            { IF st1.fatal
              THEN [al EXCEPT !.fatal = TRUE, !.warnings = st1.warnings,
                              !.br_indent_list = st1.indent_list]
              ELSE [al EXCEPT !.br_indent_list = L2(L1(st1)), !.level = st1.level,
                              !.warnings = st1.warnings] :
              st1 \in { AlignLoop(line, 1, is_decl, st0) } } : TRUE

\* F90Aligner.__init_line
init_line == [line_indents |-> <<0>>, level |-> 0, br_indent_list |-> <<0>>,
              warnings |-> 0, fatal |-> FALSE]

\* F90Aligner.process_lines_of_fline: the loop over the fragments
RECURSIVE AlignFragments(_, _, _, _, _)
AlignFragments(al, lines, pos, is_decl, rel_ind) ==
    IF pos > Len(lines) \/ al.fatal THEN al
    ELSE CHOOSE r \in
            { AlignFragments(
                 IF ~a.fatal /\ pos < Len(lines)
                 THEN [a EXCEPT !.line_indents = Append(@, Last(a.br_indent_list))]
                 ELSE a,
                 lines, pos + 1, is_decl, rel_ind) :
              a \in { align_line_continuations(al, lines[pos], is_decl, rel_ind) } } : TRUE

\* an aligner that starts a logical line with what the line before left
KeepLine(al) == [al EXCEPT !.line_indents = <<0>>, !.warnings = 0]
\* F90Aligner.process_lines_of_fline calls __init_line on the aligner al
InitLine(al) == init_line

\* F90Aligner.process_lines_of_fline on the aligner al, which the logical
\* line before left
Aligner_process_lines_of_fline(al, lines, is_decl, rel_ind) ==
    CHOOSE r \in
        { IF ~a.fatal /\ (Len(a.br_indent_list) > 2 \/ a.level /= 0)
          THEN [a EXCEPT !.warnings = @ + 1]
          ELSE a :
          a \in { AlignFragments(InitLine(al), lines, 1, is_decl, rel_ind) } } : TRUE

(***************************************************************************)
(* reformat_ffile: the output guard.  A formatted physical line is given   *)
(* by the length c of its code and the length k of its trailing comment    *)
(* (0: none); the code is followed by the newline, or by a blank, the      *)
(* comment and the newline.                                                *)
(***************************************************************************)
\* 132 columns plus 1 newline character
Limit == 133

\* len(line.lstrip(' ')): the code, the separated comment, the newline
FullLength(c, k) == c + 1 + (IF k > 0 THEN k + 1 ELSE 0)

\* line_length: the character filter stops at the comment, so the count is
\* the code and the character after it (the newline or the blank)
LineLength(c, k) == c + 1

\* u' ' * n: no blanks for a negative n
Blanks(n) == Max(n, 0)

\* the three branches of the guard for a line to be written at ind_use:
\* the column the line starts at, whether a warning is logged, whether the
\* original line is written instead
WriteLine(ind_use, c, k, orig_off) ==
    IF ind_use + LineLength(c, k) <= Limit
    THEN [col |-> Blanks(ind_use), warned |-> FALSE, orig |-> FALSE]
    ELSE IF LineLength(c, k) <= Limit
    THEN [col |-> Blanks(Limit - FullLength(c, k)), warned |-> TRUE, orig |-> FALSE]
    ELSE [col |-> orig_off, warned |-> TRUE, orig |-> TRUE]

\* no line written yet
NoLine == [ind_use |-> 0, c |-> 0, k |-> 0, col |-> 0, warned |-> FALSE, orig |-> FALSE]

(***************************************************************************)
(* State.                                                                  *)
(***************************************************************************)
VARIABLES
    indent_size,    \* the option --indent (<= 0: adopt the original offsets)
    scopes,         \* F90Indenter._scope_storage
    indents,        \* F90Indenter._indent_storage
    line_indents,   \* F90Indenter._line_indents
    prev_offset,    \* the column at which the previous logical line started
    pending,        \* req_indents[nfl]: the entry of the line the stream yields next
    hist,           \* history of the tracker: what the last call saw and did
    file,           \* reformat_ffile: the logical lines of infile
    pass,           \* which run of reformat_ffile this is (the second reads the first's output)
    pc,             \* reformat_ffile: where the run is
    nfl,            \* reformat_ffile: the fortran line counter
    req_indents,    \* reformat_ffile: the steps returned by inspect_ffile_format
    first_indent,   \* reformat_ffile: the offset of the first line of the file
    out,            \* the lines written to outfile
    out1,           \* the lines the first run wrote
    dest,           \* reformat_inplace: the destination (the file itself or standard output)
    fmt_in,         \* the arguments of a call of format_single_fline
    fmt_out,        \* what the call returned
    emitted,        \* the last call of the output guard: its inputs and what it wrote
    whitespace,     \* the option --whitespace, the density level
    statement,      \* the logical line given to the formatter and the aligner
    auto_align,     \* reformat_ffile: auto_align for the line
    lines,          \* the fragments returned by format_single_fline
    aligner,        \* the F90Aligner: its fields, the warnings logged, the raise
    fmt_warnings,   \* the warnings logged by format_single_fline
    apc,            \* where the processing of the statement is
    in_manual_block, \* reformat_ffile: inside a manual region
    skip_blank,     \* reformat_ffile: the line before was a blank line
    orig_lines,     \* reformat_ffile: the physical lines of the logical line just read
    written,        \* what outfile.write received for that logical line
    do_indent,      \* reformat_ffile: the line is written with its indent
    use_same_line   \* reformat_ffile: the line before ended in a statement separator

trackVars == <<indent_size, scopes, indents, line_indents, prev_offset, pending, hist>>

fileVars == <<file, pass, pc, nfl, req_indents, first_indent, out, out1, emitted>>

alignVars == <<whitespace, statement, auto_align, lines, aligner, fmt_warnings, apc>>

manualVars == <<in_manual_block, skip_blank, orig_lines, written>>

destVars == <<dest>>

formatVars == <<fmt_in, fmt_out>>

flagVars == <<do_indent, use_same_line>>

vars == <<trackVars, fileVars, alignVars, manualVars, destVars, formatVars, flagVars>>

\* reformat_inplace is not running: nothing to write to
NoDest == [stdout |-> FALSE, before |-> <<>>, text |-> <<>>, written |-> FALSE]

DestIdle == dest = NoDest

\* format_single_fline has not been called on its own
NoCall == [lines |-> <<>>, failed |-> FALSE]

FormatIdle == fmt_in = NoCall /\ fmt_out = NoCall

\* reformat_ffile, the flags before the loop
FlagIdle == do_indent = TRUE /\ use_same_line = FALSE

\* no statement is being formatted
AlignIdle ==
    /\ whitespace = 2 /\ statement = <<>> /\ auto_align = TRUE /\ lines = <<>>
    /\ aligner = init_line /\ fmt_warnings = 0 /\ apc = "idle"

\* no manual region is being read
ManualIdle ==
    /\ in_manual_block = FALSE /\ skip_blank = FALSE
    /\ orig_lines = <<>> /\ written = <<>>

(***************************************************************************)
(* The tracker over a stream of logical lines.                             *)
(***************************************************************************)
\* the deepest nesting explored
MaxDepth == 2

\* the columns at which a line of the original file starts
Offsets == {0, 2}

Streamed == { [toks |-> l.toks, nfrag |-> l.nfrag, off |-> o] :
              l \in LinePool, o \in Offsets }

\* the offsets of the fragments of a line as the aligner returns them
BrList(nfrag, rel_ind_con) == [pos \in 1..nfrag |-> IF pos = 1 THEN 0 ELSE rel_ind_con]

\* a do/if header that starts at the column of the line before it
Blocked(f_line, offset, prev) == offset = prev /\ (IF_RE(f_line) \/ DO_RE(f_line))

\* the entries inspect_ffile_format can record for the line that follows a
\* line at prev: one per line of the pool, or none at the end of the file,
\* where req_indents[nfl] is an IndexError and the step is 0
NoEntry == [eof |-> TRUE, req |-> 0, blocked |-> FALSE]

Entries ==
    [prev \in Offsets |->
        { [eof |-> FALSE, req |-> ReqIndent(l.toks, l.off, prev, DefaultIndent),
           blocked |-> Blocked(l.toks, l.off, prev)] : l \in Streamed }]

Repeat(x, n) == [i \in 1..n |-> x]

\* what the last call did, for the properties
LastKind(r) ==
    IF r.failed THEN "failed"
    ELSE IF r.is_new THEN "new"
    ELSE IF r.is_con THEN (IF r.valid_con THEN "con" ELSE "badcon")
    ELSE IF r.is_end THEN (IF r.valid_end THEN "end" ELSE "badend")
    ELSE "plain"

\* the kinds a line closes by its classification
Closes(f_line) == {n \in Kinds : Catalogue[f_line][n].end}

\* the blocks a sequence of lines leaves open by its classification alone:
\* every opening match opens a block, a closing match of kind K closes the
\* innermost open block, which has to be of kind K
NestAfter(nest, f_line) ==
    LET opened == NewLoop(0, f_line, nest)
    IN  IF Closes(f_line) = {} THEN [ok |-> TRUE, nest |-> opened]
        ELSE IF Len(opened) > 0 /\ Closes(f_line) = {Last(opened)}
             THEN [ok |-> TRUE, nest |-> Front(opened)]
             ELSE [ok |-> FALSE, nest |-> <<>>]

\* the line matches a closing pattern that does not close the innermost
\* block open when the pattern is tried, the blocks the line itself opens
\* included
RECURSIVE BadEndLoop(_, _, _)
BadEndLoop(n, f_line, sc) ==
    IF n > 9 THEN FALSE
    ELSE IF Catalogue[f_line][n].end
         THEN \/ Len(sc) = 0
              \/ Last(sc) /= n
              \/ BadEndLoop(n + 1, f_line, Front(sc))
         ELSE BadEndLoop(n + 1, f_line, sc)

InvalidClose(sc0, f_line) == BadEndLoop(0, f_line, NewLoop(0, f_line, sc0))

InitHist ==
    [last |-> "none", what_end |-> -1, hdrs |-> <<>>, single |-> TRUE,
     inStep |-> TRUE, wf |-> TRUE, nest |-> <<>>, balance |-> 0,
     oneNew |-> TRUE, noBadEnd |-> TRUE]

\* hist after a call with result r on f_line.  hdrs follows scopes: the
\* indent of the header line of each open block.  single: no line so far
\* matched two opening patterns or an opening and a closing pattern.
\* inStep: moreover no line closed a block of another kind.  wf and nest: the sequence so far is properly
\* nested by its classification, and the blocks it leaves open.  balance:
\* the opening minus the valid closing classifications of such a sequence.
\* oneNew: no line so far matched two opening patterns.  noBadEnd: no line
\* so far matched a closing pattern of another kind than the innermost open
\* block, or one with no block open.
NextHist(h, r, sc0, f_line) ==
    LET hdr1 == h.hdrs \o Repeat(r.line_indents[1], r.n_new)
        na   == NestAfter(h.nest, f_line)
        wf1  == h.wf /\ na.ok
    IN  [last |-> LastKind(r),
         what_end |-> r.what_end,
         hdrs |-> SubSeq(hdr1, 1, Len(r.scopes)),
         single |-> /\ h.single /\ ~r.failed
                    /\ r.n_new <= 1
                    /\ ~(r.is_new /\ r.is_end),
         inStep |-> /\ h.inStep /\ ~r.failed
                    /\ r.n_new <= 1
                    /\ ~(r.is_new /\ r.is_end)
                    /\ (r.is_end /\ Len(sc0) > 0 => r.valid_end),
         wf |-> wf1,
         nest |-> IF wf1 THEN na.nest ELSE <<>>,
         balance |-> IF wf1
                     THEN h.balance + r.n_new - (IF r.valid_end THEN 1 ELSE 0)
                     ELSE 0,
         oneNew |-> h.oneNew /\ r.n_new <= 1,
         noBadEnd |-> h.noBadEnd /\ ~InvalidClose(sc0, f_line)]

\* F90Indenter.__init__, and the start of the stream
InitTrack ==
    /\ indent_size = DefaultIndent
    /\ scopes = <<>>
    /\ indents = <<0>>
    /\ line_indents = <<>>
    /\ prev_offset = 0
    /\ pending \in Entries[0]
    /\ hist = InitHist
    /\ file = <<>> /\ pass = 0 /\ pc = "tracker" /\ nfl = 0
    /\ req_indents = <<>> /\ first_indent = -1
    /\ out = <<>> /\ out1 = <<>> /\ emitted = NoLine
    /\ AlignIdle
    /\ ManualIdle
    /\ DestIdle
    /\ FormatIdle
    /\ FlagIdle

\* one iteration of the loop of reformat_ffile for a line that reaches the
\* indenter: the stream yields a line `cur` (one for which the inspection
\* recorded the pending entry), and process_lines_of_fline is called with
\* req_indents[nfl], the entry of the line after it
TrackLine ==
    /\ ~pending.eof /\ hist.last /= "failed"
    /\ \E off \in Offsets :
       \E nxt \in Entries[off] \cup {NoEntry} :
       \E l \in LinePool :
        /\ ReqIndent(l.toks, off, prev_offset, indent_size) = pending.req
        /\ Blocked(l.toks, off, prev_offset) = pending.blocked
        /\ \E c \in {Classify(scopes, l.toks)} :
           \E r \in {process_lines_of_fline(c, indents,
                        BrList(l.nfrag, Max(indent_size, 0)), nxt.req)} :
            /\ Len(r.scopes) <= MaxDepth /\ Len(r.indents) <= MaxDepth + 1
            /\ scopes' = r.scopes
            /\ indents' = r.indents
            /\ line_indents' = r.line_indents
            /\ prev_offset' = off
            /\ pending' = nxt
            /\ hist' = NextHist(hist, r, scopes, l.toks)
    /\ UNCHANGED <<indent_size, fileVars, alignVars, manualVars, destVars, formatVars, flagVars>>

NextTrack == TrackLine

SpecTrack == InitTrack /\ [][NextTrack]_vars

(***************************************************************************)
(* reformat_ffile over a whole file, run twice: the second run reads what  *)
(* the first run wrote.  A line of the file is its tokens, the column it   *)
(* starts at, the length c of its code and the length k of its comment;    *)
(* the lines are statements in the form the formatter leaves them in.      *)
(***************************************************************************)
\* the longest file
MaxLines == 2

\* the statement labels of the pool: tokens that start with a digit
Labels == {"10"}

\* F77_STYLE: the logical line starts with a digit
F77_STYLE(toks) == toks /= <<>> /\ toks[1] \in Labels

FileLines ==
    { [toks |-> t, off |-> o, c |-> c, k |-> k] :
        t \in {<<"x">>, <<"DO">>, <<"END", "DO">>},
        o \in {0, 100}, c \in {6, 40, 133}, k \in {0, 100} }
    \cup { [toks |-> LabelledLine, off |-> o, c |-> 6, k |-> 0] : o \in {0, 100} }

\* a file on which the indenter fails at its last line: the first line opens
\* two scopes and one frame, the third closes a scope with no frame left
ModuleFile ==
    [i \in 1..3 |->
        [toks |-> << <<"MODULE", "INTERFACE">>, <<"END", "INTERFACE">>,
                     <<"END", "MODULE">> >>[i],
         off |-> 0, c |-> 6, k |-> 0]]

RECURSIVE Files(_)
Files(n) ==
    IF n = 0 THEN {<<>>}
    ELSE Files(n - 1) \cup
         { Append(f, l) : f \in {g \in Files(n - 1) : Len(g) = n - 1}, l \in FileLines }

\* mutant of modern_fortran: no file is taken for legacy Fortran
modern_always(f) == TRUE
\* inspect_ffile_format: no logical line of the file matches F77_STYLE
modern_fortran(f) == ~\E i \in 1..Len(f) : F77_STYLE(f[i].toks)

\* inspect_ffile_format: the steps of the lines and the offset of the first
inspect_ffile_format(f, size) ==
    [indents |-> [i \in 1..Len(f) |->
                    ReqIndent(f[i].toks, f[i].off,
                              IF i = 1 THEN 0 ELSE f[i - 1].off, size)],
     first_indent |-> IF Len(f) = 0 THEN -1 ELSE f[1].off,
     modern_fortran |-> modern_fortran(f)]

InitFile ==
    /\ indent_size = DefaultIndent
    /\ scopes = <<>>
    /\ indents = <<0>>
    /\ line_indents = <<>>
    /\ prev_offset = 0
    /\ pending = NoEntry
    /\ hist = InitHist
    /\ file \in (Files(MaxLines) \ {<<>>}) \cup {ModuleFile}
    /\ pass = 1 /\ pc = "inspect" /\ nfl = 0
    /\ req_indents = <<>> /\ first_indent = -1
    /\ out = <<>> /\ out1 = <<>> /\ emitted = NoLine
    /\ \E b \in BOOLEAN :
          dest = [stdout |-> b, before |-> IF b THEN <<>> ELSE file,
                  text |-> IF b THEN <<>> ELSE file, written |-> FALSE]
    /\ FormatIdle
    /\ FlagIdle
    /\ AlignIdle
    /\ ManualIdle

\* the start of reformat_inplace and of reformat_ffile: a temporary file to
\* write to, a new indenter and the inspection of the file, which ends the
\* run when the file is not modern Fortran
InspectFile ==
    /\ pc = "inspect"
    /\ scopes' = <<>> /\ indents' = <<0>> /\ line_indents' = <<>>
    /\ req_indents' = inspect_ffile_format(file, indent_size).indents
    /\ first_indent' = inspect_ffile_format(file, indent_size).first_indent
    /\ nfl' = 0 /\ out' = <<>>
    /\ pc' = IF inspect_ffile_format(file, indent_size).modern_fortran
             THEN "loop" ELSE "fatal"
    /\ dest' = [dest EXCEPT !.before = dest.text, !.written = FALSE]
    /\ UNCHANGED <<indent_size, prev_offset, pending, hist, file, pass, out1, emitted>>
    /\ UNCHANGED <<alignVars, manualVars, formatVars, flagVars>>

\* one iteration of the loop for a statement: the indenter, then the guard
FormatLine ==
    /\ pc = "loop" /\ nfl < Len(file)
    /\ LET line == file[nfl + 1]
           rel_indent == IF nfl + 2 <= Len(req_indents) THEN req_indents[nfl + 2] ELSE 0
           r   == process_lines_of_fline(Classify(scopes, line.toks), indents,
                                         BrList(1, indent_size), rel_indent)
           ind_use == r.line_indents[1] + first_indent
           w   == WriteLine(ind_use, line.c, line.k, line.off)
       IN  /\ nfl' = nfl + 1
           /\ scopes' = r.scopes /\ indents' = r.indents
           /\ line_indents' = r.line_indents
           /\ IF r.failed
              THEN pc' = "fatal" /\ UNCHANGED <<out, emitted>>
              ELSE /\ pc' = "loop"
                   /\ out' = Append(out, [line EXCEPT !.off = w.col])
                   /\ emitted' = [ind_use |-> ind_use, c |-> line.c, k |-> line.k,
                                  col |-> w.col, warned |-> w.warned, orig |-> w.orig]
    /\ UNCHANGED <<indent_size, prev_offset, pending, hist, file, pass,
                   req_indents, first_indent, out1>>
    /\ UNCHANGED <<alignVars, manualVars, destVars, formatVars, flagVars>>

\* the end of the file: reformat_ffile returns and reformat_inplace copies
\* the temporary file to the destination; after the first run its output is
\* reformatted
EndOfFile ==
    /\ pc = "loop" /\ nfl = Len(file)
    /\ dest' = [dest EXCEPT !.text = IF dest.stdout THEN dest.text \o out ELSE out,
                            !.written = TRUE]
    /\ IF pass = 1
       THEN /\ out1' = out /\ file' = out /\ pass' = 2 /\ pc' = "inspect"
       ELSE /\ pc' = "done" /\ UNCHANGED <<out1, file, pass>>
    /\ UNCHANGED <<trackVars, nfl, req_indents, first_indent, out, emitted>>
    /\ UNCHANGED <<alignVars, manualVars, formatVars, flagVars>>

NextFile == InspectFile \/ FormatLine \/ EndOfFile

SpecFile == InitFile /\ [][NextFile]_vars

(***************************************************************************)
(* Properties of the whole run.                                            *)
(***************************************************************************)
\* C1: reformatting the output of a run that ended without a fatal error
\* writes the same text again
C1_Idempotence == pc = "done" => out = out1

\* C10: for every line written exactly one of three cases applies: indent
\* plus content fits the limit and the line is written at its indent without
\* a warning; or the content alone fits and the line is written with a
\* warning so that it (its code, or its whole text) ends at the limit; or
\* the original line is written with a warning
C10_LengthGuard ==
    emitted /= NoLine =>
        LET fits  == emitted.ind_use + emitted.c <= Limit - 1
            alone == emitted.c <= Limit - 1
        IN  /\ fits => (emitted.col = emitted.ind_use
                        /\ ~emitted.warned /\ ~emitted.orig)
            /\ (~fits /\ alone) =>
                  /\ emitted.warned /\ ~emitted.orig
                  /\ \/ emitted.col + emitted.c = Limit - 1
                     \/ emitted.col + FullLength(emitted.c, emitted.k) = Limit
            /\ ~alone => (emitted.warned /\ emitted.orig)

(***************************************************************************)
(* One logical line through format_single_fline and, by way of the         *)
(* indenter, through the aligner.                                          *)
(***************************************************************************)
\* the left-hand sides and the right-hand sides of the statements: a
\* variable, an array element, an element closed by the wrong delimiter, a
\* second assignment, an assignment inside a delimiter
Heads == { <<"x">>, <<"x", "(", "x", ")">> }

Tails ==
    { <<"x">>,
      <<"x", "(", "x", ")">>,
      <<"x", "(", "x", "]">>,
      <<"x", "=", "x">>,
      <<"x", "=>", "x">>,
      <<"x", "(", "x", "=", "x", ")">> }

Unbroken == { h \o <<op>> \o t : h \in Heads, op \in Ops, t \in Tails }

\* the statement with a line break after item k
WithBreak(q, k) == SubSeq(q, 1, k) \o <<"&">> \o SubSeq(q, k + 1, Len(q))

\* a statement of three words, without delimiters and assignment
Words == <<"x", "x", "x">>

\* a statement is written on one line or broken in two; the statement of
\* three words is also broken in three
\* a statement with a delimiter that is not closed
Unclosed == <<"x", "=", "x", "(", "x">>

Statements ==
    Unbroken \cup UNION { { WithBreak(q, k) : k \in 1..(Len(q) - 1) } : q \in Unbroken }
    \cup { Words, WithBreak(Words, 1), WithBreak(Words, 2),
           WithBreak(WithBreak(Words, 2), 1) }
    \cup { Unclosed, WithBreak(Unclosed, 4) }

\* the most logical lines that follow the first one
MaxFollow == 1

\* the logical lines that follow the first one
Followers ==
    { WithBreak(Words, 1), <<"x", "=", "x", "&", "x">>,
      <<"x", "(", "x", "&", "x", ")", "=", "x">>, <<"x", ")", "&", "x">>,
      <<"x", "::", "x", "(", "x", "&", "x", ")">>,
      <<"x", "::", "x", "=", "x", "(", "x", "&", "x", ")">> }

InitAlign ==
    /\ indent_size = DefaultIndent
    /\ scopes = <<>>
    /\ indents = <<0>>
    /\ line_indents = <<>>
    /\ prev_offset = 0
    /\ pending = NoEntry
    /\ hist = InitHist
    /\ file = <<>> /\ pass = 0 /\ pc = "statement" /\ nfl = 0
    /\ req_indents = <<>> /\ first_indent = 0
    /\ out = <<>> /\ out1 = <<>> /\ emitted = NoLine
    /\ whitespace \in {0, 1, 2}
    /\ statement \in Statements
    \* auto_align is off when a continuation fragment starts with a marker
    /\ auto_align \in (IF \E k \in 1..Len(statement) : IsBreak(statement[k])
                       THEN BOOLEAN ELSE {TRUE})
    /\ lines = <<>>
    /\ aligner = init_line
    /\ fmt_warnings = 0
    /\ apc = "format"
    /\ ManualIdle
    /\ DestIdle
    /\ FormatIdle
    /\ FlagIdle

\* reformat_ffile calls format_single_fline and appends the newlines
FormatStatement ==
    /\ apc = "format"
    /\ lines' = format_single_fline(statement, whitespace)
    /\ fmt_warnings' = FormatWarnings(ItemsOf(statement))
    /\ apc' = "indent"
    /\ UNCHANGED <<trackVars, fileVars, manualVars, whitespace, statement,
                   auto_align, aligner>>
    /\ UNCHANGED <<destVars, formatVars, flagVars>>

\* reformat_ffile calls the indenter, which calls the aligner unless the
\* caller passed manual indents (auto_align off)
IndentStatement ==
    /\ apc = "indent"
    /\ \E a \in { IF auto_align
                   THEN Aligner_process_lines_of_fline(aligner, lines, IsDecl(statement),
                                                       indent_size)
                   ELSE [init_line EXCEPT !.line_indents = [i \in 1..Len(lines) |-> 0]] } :
       \E r \in { process_lines_of_fline(Classify(scopes, <<"x">>), indents,
                                         a.line_indents, 0) } :
           /\ aligner' = a
           /\ IF a.fatal
              THEN apc' = "fatal" /\ UNCHANGED <<scopes, indents, line_indents>>
              ELSE /\ apc' = "done"
                   /\ scopes' = r.scopes /\ indents' = r.indents
                   /\ line_indents' = r.line_indents
    /\ UNCHANGED <<indent_size, prev_offset, pending, hist, fileVars, manualVars,
                   whitespace, statement, auto_align, lines, fmt_warnings>>
    /\ UNCHANGED <<destVars, formatVars, flagVars>>

\* the loop of reformat_ffile goes on: the stream yields the next logical
\* line, for the same indenter and the same aligner
NextStatement ==
    /\ apc = "done" /\ nfl < MaxFollow
    /\ nfl' = nfl + 1
    /\ statement' \in Followers
    /\ auto_align' = TRUE
    /\ lines' = <<>>
    /\ apc' = "format"
    /\ UNCHANGED <<trackVars, file, pass, pc, req_indents, first_indent, out, out1,
                   emitted, manualVars, whitespace, aligner, fmt_warnings>>
    /\ UNCHANGED <<destVars, formatVars, flagVars>>

NextAlign == FormatStatement \/ IndentStatement \/ NextStatement

SpecAlign == InitAlign /\ [][NextAlign]_vars

(***************************************************************************)
(* A manual region: the lines read between the directive comments "!&<"    *)
(* and "!&>".  A physical line is the sequence of its characters, the      *)
(* newline included.                                                       *)
(***************************************************************************)
\* str.lstrip(u' '), str.rstrip(u' '), str.strip(u' ')
RECURSIVE lstrip(_)
lstrip(s) == IF s /= <<>> /\ Head(s) = " " THEN lstrip(Tail(s)) ELSE s

RECURSIVE rstrip(_)
rstrip(s) == IF s /= <<>> /\ Last(s) = " " THEN rstrip(Front(s)) ELSE s

strip(s) == lstrip(rstrip(s))

\* str.lstrip() and str.strip(): blanks and newlines
RECURSIVE LStripWs(_)
LStripWs(s) == IF s /= <<>> /\ Head(s) \in {" ", "\n"} THEN LStripWs(Tail(s)) ELSE s

StripWs(s) == LStripWs(RStripWs(s))

\* str.lstrip(u'&') and str.strip(u'&')
RECURSIVE lstrip_amp(_)
lstrip_amp(s) == IF s /= <<>> /\ Head(s) = "&" THEN lstrip_amp(Tail(s)) ELSE s

RECURSIVE rstrip_amp(_)
rstrip_amp(s) == IF s /= <<>> /\ Last(s) = "&" THEN rstrip_amp(Front(s)) ELSE s

StartsWith(s, prefix) == Len(s) >= Len(prefix) /\ SubSeq(s, 1, Len(prefix)) = prefix

RECURSIVE Join(_)
Join(ss) == IF ss = <<>> THEN <<>> ELSE Head(ss) \o Join(Tail(ss))

Reverse(q) == [i \in 1..Len(q) |-> q[Len(q) + 1 - i]]

\* CharFilter stops at the comment: the index of the "!" of a line, or one
\* past its end (the lines read here hold no string literal)
CommentStart(line) ==
    IF \E p \in 1..Len(line) : line[p] = "!"
    THEN CHOOSE p \in 1..Len(line) :
            line[p] = "!" /\ \A q \in 1..(p - 1) : line[q] /= "!"
    ELSE Len(line) + 1

\* InputStream: the comment of a physical line, without the newline
CommentOf(line) ==
    IF CommentStart(line) > Len(line) THEN <<>>
    ELSE SubSeq(line, CommentStart(line), Len(line) - 1)

\* InputStream: what a physical line gives to the logical line, the text
\* between the leading blanks and continuation marker and the trailing
\* continuation marker, comment or newline
CoreOf(line) ==
    LET code == SubSeq(line, 1, CommentStart(line) - 1)
        text == IF code /= <<>> /\ Last(code) = "\n" THEN Front(code) ELSE code
        a    == lstrip(text)
        b    == IF a /= <<>> /\ Head(a) = "&" THEN Tail(a) ELSE a
    IN  IF rstrip(b) /= <<>> /\ Last(rstrip(b)) = "&" THEN Front(rstrip(b)) ELSE b

\* InputStream.next_fortran_line: f_line, comments, lines
next_fortran_line(ls) ==
    [f_line   |-> Join([i \in 1..Len(ls) |-> CoreOf(ls[i])]),
     comments |-> [i \in 1..Len(ls) |-> CommentOf(ls[i])],
     lines    |-> ls]

\* reformat_ffile: comment_lines, the comments as they are written again
CommentLine(line, comment) ==
    LET has_comment == StripWs(comment) /= <<>>
        sep == has_comment /\ StripWs(comment) /= StripWs(line)
    IN  (IF sep THEN <<" ">> ELSE <<>>) \o StripWs(comment)

comment_lines(ls, comments) ==
    LET kept == SelectSeq([i \in 1..Len(ls) |-> i],
                          LAMBDA i : StripWs(ls[i]) /= <<>>)
    IN  [k \in 1..Len(kept) |-> CommentLine(ls[kept[k]], comments[kept[k]])]

\* reformat_ffile: auto_format
AutoFormat(manual, cls) ==
    ~(manual \/ \E k \in 1..Len(cls) : StartsWith(LStripWs(cls[k]), <<"!", "&">>))

\* reformat_ffile: the directives that open and close a manual region
OpenDirective == <<"!", "&", "<">>

CloseDirective == <<"!", "&", ">">>

\* reformat_ffile: EMPTY_RE.search(f_line) on a logical line without its comment
IsEmpty(f_line) == StripWs(f_line) = <<>>

\* reformat_ffile: manual_lines_indent
manual_lines_indent(ls) ==
    LET raw == [i \in 1..Len(ls) |-> Len(ls[i]) - Len(lstrip_amp(lstrip(ls[i])))]
    IN  [i \in 1..Len(ls) |-> raw[i] - raw[1]]

\* reformat_ffile: pre_ampersand, the marker a line starts with and the
\* whitespace after it
PreAmpersand(line) ==
    LET a == LStripWs(line)
    IN  IF a /= <<>> /\ Head(a) = "&"
        THEN <<"&">> \o SubSeq(Tail(a), 1, Len(Tail(a)) - Len(LStripWs(Tail(a))))
        ELSE <<>>

\* reformat_ffile: the match of (\s*)&[\s]*(?:!.*)?$ in a line, the index of
\* the marker and the number of blanks before it
HasTrailingAmp(line) ==
    \E p \in 1..(CommentStart(line) - 1) :
        line[p] = "&" /\ StripWs(SubSeq(line, p + 1, CommentStart(line) - 1)) = <<>>

TrailingSep(line) ==
    LET p == CHOOSE q \in 1..(CommentStart(line) - 1) :
                 /\ line[q] = "&"
                 /\ StripWs(SubSeq(line, q + 1, CommentStart(line) - 1)) = <<>>
                 /\ \A r \in 1..(q - 1) :
                       ~(line[r] = "&" /\
                         StripWs(SubSeq(line, r + 1, CommentStart(line) - 1)) = <<>>)
    IN  (p - 1) - Len(RStripWs(SubSeq(line, 1, p - 1)))

\* reformat_ffile: ampersand_sep, the blanks to put before the marker that
\* ends fragment pos - 1 (lines[pos - 1] of the first line is the last line)
AmpersandSepAt(ls, pos) ==
    IF PreAmpersand(ls[pos]) /= <<>>
    THEN TrailingSep(ls[IF pos = 1 THEN Len(ls) ELSE pos - 1])
    ELSE 1

BadContinuation(ls) ==
    \E pos \in 1..Len(ls) :
        /\ PreAmpersand(ls[pos]) /= <<>>
        /\ ~HasTrailingAmp(ls[IF pos = 1 THEN Len(ls) ELSE pos - 1])

ampersand_sep(ls) ==
    LET at == SelectSeq([i \in 1..Len(ls) |-> i],
                        LAMBDA i : i > 1 \/ PreAmpersand(ls[i]) /= <<>>)
    IN  [k \in 1..Len(at) |-> AmpersandSepAt(ls, at[k])]

\* reformat_ffile: linebreak_pos, from the lines stripped of blanks and
\* markers; `found` is the 0-based index of the last "&" before the comment
Found(line) ==
    LET amps == {p \in 1..(CommentStart(line) - 1) : line[p] = "&"}
    IN  IF amps = {} THEN 0 ELSE (CHOOSE p \in amps : \A q \in amps : q <= p) - 1

RECURSIVE RawBreaks(_)
RawBreaks(ls) ==
    IF ls = <<>> THEN <<>>
    ELSE LET line == rstrip_amp(lstrip_amp(strip(Head(ls))))
         IN  (IF Found(line) /= 0 THEN <<Found(line)>>
              ELSE IF StartsWith(lstrip(line), <<"!">>) THEN <<0>>
              ELSE <<>>) \o RawBreaks(Tail(ls))

RECURSIVE Sum(_)
Sum(q) == IF q = <<>> THEN 0 ELSE Head(q) + Sum(Tail(q))

linebreak_pos(ls) ==
    LET raw == RawBreaks(ls)
    IN  [k \in 1..Len(raw) |-> Sum(SubSeq(raw, 1, k)) - 1]

\* the digits and the letters of the statements: what \w matches
Digits == {"0", "1"}

WordChars ==
    Names \cup Digits \cup {"a", "b", "d", "e", "f", "g", "h", "i", "n", "o", "r", "t"}

\* format_single_fline: the blanks it removes, all but one after a word
\* character (no statement here is a declaration with "::" or has a string)
RECURSIVE RmExtraneous(_, _)
RmExtraneous(line, line_ftd) ==
    IF line = <<>> THEN line_ftd
    ELSE IF Head(line) = " "
    THEN RmExtraneous(Tail(line),
                      IF line_ftd /= <<>> /\ Last(line_ftd) \in WordChars
                      THEN Append(line_ftd, " ") ELSE line_ftd)
    ELSE RmExtraneous(Tail(line),
                      Append(IF line_ftd /= <<>> /\ Last(line_ftd) = " "
                                /\ Head(line) \notin WordChars
                             THEN Front(line_ftd) ELSE line_ftd,
                             Head(line)))

\* the list spacey of format_single_fline: blanks after a comma, around an
\* assignment, a relational, a logical operator and a binary plus or minus
spacey(density) ==
    IF density = 0 THEN <<0, 0, 0, 0, 0>>
    ELSE IF density = 1 THEN <<1, 1, 1, 1, 0>>
    ELSE <<1, 1, 1, 1, 1>>

\* the characters of a delimiter token
DelChars(d) ==
    IF d = "(/" THEN <<"(", "/">> ELSE IF d = "/)" THEN <<"/", ")">> ELSE <<d>>

\* re.search(r"(" + DEL_OPEN_STR + r"|[\w\*/=\+\-:])\s*$", line[:pos])
NoSepBefore(prefix) ==
    LET u == rstrip(prefix)
    IN  u /= <<>> /\ Last(u) \in WordChars \cup {"(", "[", "*", "/", "=", "+", "-", ":"}

\* re.search(SOL_STR + r"(\w+\s*:)?(ELSE)?\s*IF\s*$", line[:pos]) for a
\* header without a label
IfHeader(prefix) ==
    strip(prefix) \in { <<"i", "f">>, <<"e", "l", "s", "e", "i", "f">>,
                       <<"e", "l", "s", "e", " ", "i", "f">> }

\* re.search(r"^\s*(" + DEL_CLOSE_STR + r"|[,%:/\*])", line[pos + 1:])
NoSepAfter(rest) ==
    LET u == lstrip(rest)
    IN  u /= <<>> /\ u[1] \in {")", "]", ",", "%", ":", "/", "*"}

\* REL_OP_RE.search(line[pos - 1:pos + 2]) on the characters around an "="
RelSearch(w) ==
    \E q \in 1..Len(w) :
        \/ q < Len(w) /\ <<w[q], w[q + 1]>> \in {<<"=", "=">>, <<"/", "=">>}
        \/ w[q] = "<"
        \/ w[q] = ">" /\ ((q < Len(w) /\ w[q + 1] = "=") \/ q = 1 \/ w[q - 1] /= "=")

\* format_single_fline, the loop over the characters of the line without
\* extraneous blanks: the step at the 0-based position pos.  st holds
\* line_ftd, level, pos_eq, end_of_delim and the messages logged.
FormatChar(line, pos, sp, st) ==
    LET offset == Len(st.ftd) - Len(line)
        char   == line[pos + 1]
        open   == IF pos > st.end_of_delim THEN DelOpen(line, pos + 1) ELSE ""
        close  == IF pos > st.end_of_delim THEN DelClose(line, pos + 1) ELSE ""
        delim  == IF open /= "" THEN open ELSE close
        lhs    == SubSeq(st.ftd, 1, pos + offset)
        rhsd   == SubSeq(st.ftd, pos + DelLen(delim) + offset + 1, Len(st.ftd))
        rhs    == SubSeq(st.ftd, pos + 1 + offset + 1, Len(st.ftd))
        prefix == SubSeq(line, 1, pos)
        rest   == SubSeq(line, pos + 2, Len(line))
        sep1   == IF (~NoSepBefore(prefix) /\ rstrip(prefix) /= <<>>) \/ IfHeader(prefix)
                  THEN 1 ELSE 0
        sep2   == IF ~NoSepAfter(rest) THEN 1
                  ELSE IF StartsWith(lstrip(rest), <<":", ":">>)
                  THEN Len(rhsd) - Len(lstrip(rhsd)) ELSE 0
    IN  IF open /= ""
        THEN [st EXCEPT !.level = @ + 1,
                        !.end_of_delim = pos + DelLen(delim) - 1,
                        !.ftd = rstrip(lhs) \o Spaces(sep1) \o DelChars(delim)
                                \o lstrip(rhsd)]
        ELSE IF close /= ""
        THEN [st EXCEPT !.level = IF @ > 0 THEN @ - 1 ELSE @,
                        !.warnings = IF st.level > 0 THEN @ ELSE @ + 1,
                        !.end_of_delim = pos + DelLen(delim) - 1,
                        !.ftd = rstrip(lhs) \o DelChars(delim) \o Spaces(sep2)
                                \o lstrip(rhsd)]
        ELSE IF char \in {",", ";"}
        THEN [st EXCEPT !.ftd = rstrip(rstrip(lhs) \o <<char>> \o Spaces(sp[1])
                                       \o lstrip(rhs))]
        ELSE IF SubSeq(line, pos + 1, Min(pos + 5, Len(line))) = <<".", "n", "o", "t", ".">>
        THEN [st EXCEPT !.ftd = rstrip(lhs) \o <<".", "n", "o", "t", ".">>
                                \o Spaces(sp[4])
                                \o lstrip(SubSeq(st.ftd, pos + 5 + offset + 1, Len(st.ftd)))]
        ELSE IF char = "="
                /\ ~RelSearch(IF pos = 0 THEN <<>>
                              ELSE SubSeq(line, pos, Min(pos + 2, Len(line))))
        THEN [st EXCEPT !.ftd = rstrip(lhs) \o <<"=">> \o lstrip(rhs),
                        !.pos_eq = IF st.level = 0
                                   THEN Append(@, Len(rstrip(lhs))) ELSE @]
        ELSE st

RECURSIVE FormatLoop(_, _, _, _)
FormatLoop(line, pos, sp, st) ==
    IF pos >= Len(line) THEN st
    ELSE CHOOSE r \in { FormatLoop(line, pos + 1, sp, s) :
                            s \in { FormatChar(line, pos, sp, st) } } : TRUE

\* format_single_fline, "format assignments": spacey[1] blanks on both sides
\* of every assignment operator remembered in pos_eq (no statement here ends
\* in "=")
RECURSIVE FormatAssignments(_, _, _, _)
FormatAssignments(line, pos_eq, n, ftd) ==
    IF pos_eq = <<>> THEN ftd
    ELSE LET pos        == Head(pos_eq)
             offset     == Len(ftd) - Len(line)
             is_pointer == IF pos + 2 <= Len(line) /\ line[pos + 2] = ">" THEN 1 ELSE 0
             lhs        == SubSeq(ftd, 1, pos + offset)
             rhs        == SubSeq(ftd, pos + 1 + is_pointer + offset + 1, Len(ftd))
         IN  FormatAssignments(line, Tail(pos_eq), n,
                               rstrip(lhs) \o Spaces(n)
                               \o (IF is_pointer = 1 THEN <<"=", ">">> ELSE <<"=">>)
                               \o Spaces(n) \o lstrip(rhs))

\* the length of the operator that REL_OP_RE, LOG_OP_RE (n_op 0, 1) match
\* at j after the blanks from i on, or that PLUSMINUS_RE (n_op 2) matches
\* at j when the characters before i allow it; 0 if there is none
OpLen(n_op, line, i, j) ==
    LET at(k) == IF j + k <= Len(line) THEN line[j + k] ELSE ""
        dotted(names) ==
            \E w \in names :
                /\ at(0) = "." /\ at(Len(w) + 1) = "."
                /\ j + Len(w) <= Len(line) /\ SubSeq(line, j + 1, j + Len(w)) = w
    IN  IF n_op = 0
        THEN IF dotted({<<"e", "q">>, <<"n", "e">>, <<"l", "t">>, <<"l", "e">>,
                        <<"g", "t">>, <<"g", "e">>}) THEN 4
             ELSE IF <<at(0), at(1)>> \in {<<"=", "=">>, <<"/", "=">>,
                                          <<"<", "=">>, <<">", "=">>} THEN 2
             ELSE IF at(0) = "<" THEN 1
             ELSE IF at(0) = ">" /\ (j = 1 \/ line[j - 1] /= "=") THEN 1
             ELSE 0
        ELSE IF n_op = 1
        THEN IF dotted({<<"o", "r">>}) THEN 4
             ELSE IF dotted({<<"a", "n", "d">>, <<"e", "q", "v">>}) THEN 5
             ELSE IF dotted({<<"n", "e", "q", "v">>}) THEN 6
             ELSE 0
        ELSE IF /\ i >= 2 /\ line[i - 1] \in WordChars \cup {")", "]"}
                /\ ~(i >= 3 /\ line[i - 2] \in Digits \cup {"."}
                     /\ line[i - 1] \in WordChars)
                /\ at(0) \in {"+", "-"}
             THEN 1 ELSE 0

\* format_single_fline, "Two-sided operators": lr_re.split(part) joined by n
\* blanks, from the 1-based position i on
RECURSIVE SplitJoin(_, _, _, _, _)
SplitJoin(line, i, n_op, n, acc) ==
    IF i > Len(line) THEN acc
    ELSE LET j == SkipBlanks(line, i)
             l == IF j > Len(line) THEN 0 ELSE OpLen(n_op, line, i, j)
         IN  IF l > 0
             THEN SplitJoin(line, SkipBlanks(line, j + l), n_op, n,
                            acc \o Spaces(n) \o SubSeq(line, j, j + l - 1) \o Spaces(n))
             ELSE SplitJoin(line, i + 1, n_op, n, Append(acc, line[i]))

\* format_single_fline after the loop: the assignments, then the
\* two-sided operators of the three lists in turn
AfterLoop(st, sp) ==
    CHOOSE r \in
        { [line |-> SplitJoin(SplitJoin(SplitJoin(a, 1, 0, sp[3], <<>>),
                                        1, 1, sp[4], <<>>),
                              1, 2, sp[5], <<>>),
           warnings |-> st.warnings + (IF st.level > 0 THEN 1 ELSE 0)] :
          a \in { FormatAssignments(st.ftd, st.pos_eq, sp[2], st.ftd) } } : TRUE

\* format_single_fline up to the label formatting (no statement here has a
\* label): the formatted line and the messages logged
Formatted(f_line, density) ==
    CHOOSE r \in
        { AfterLoop(st, spacey(density)) :
          st \in { FormatLoop(ftd0, 0, spacey(density),
                              [ftd |-> ftd0, level |-> 0, pos_eq |-> <<>>,
                               end_of_delim |-> -1, warnings |-> 0]) :
                   ftd0 \in { RmExtraneous(f_line, <<>>) } } } : TRUE

\* format_single_fline: the line after the formatting
FormattedAlways(f_line, density, auto_format) == Formatted(f_line, density).line

\* format_single_fline: the line it breaks again, the original one if
\* auto_format is off
FormattedLine(f_line, density, auto_format) ==
    IF ~auto_format THEN f_line ELSE Formatted(f_line, density).line

\* format_single_fline: the line break positions shifted from line_orig to
\* line; positions are 0-based, breaks is sorted in reverse
RECURSIVE ShiftBreaks(_, _, _, _, _, _)
ShiftBreaks(line, line_orig, pos_new, pos_old, breaks, ftd) ==
    IF pos_new = Len(line) \/ pos_old = Len(line_orig)
    THEN [ftd |-> ftd, failed |-> FALSE]
    ELSE IF line[pos_new + 1] /= line_orig[pos_old + 1]
    THEN [ftd |-> ftd, failed |-> TRUE]
    ELSE IF breaks /= <<>> /\ pos_old > Last(breaks)
    THEN ShiftBreaks(line, line_orig, pos_new, pos_old, Front(breaks),
                     Append(ftd, pos_new))
    ELSE ShiftBreaks(line, line_orig, SkipBlanks(line, pos_new + 2) - 1,
                     SkipBlanks(line_orig, pos_old + 2) - 1, breaks, ftd)

\* lines_out with a continuation marker after every slice, the empty ones
\* included
LinesOutMarked(line, ftd, seps) ==
    [pos \in 1..(Len(ftd) - 1) |->
        rstrip(SubSeq(line, ftd[pos] + 1, ftd[pos + 1]))
        \o Spaces(seps[pos]) \o <<"&">>]
    \o << SubSeq(line, Last(ftd) + 1, Len(line)) >>

\* format_single_fline: lines_out
LinesOut(line, ftd, seps) ==
    [pos \in 1..(Len(ftd) - 1) |->
        rstrip(SubSeq(line, ftd[pos] + 1, ftd[pos + 1]))
        \o Spaces(seps[pos])
        \o (IF ftd[pos + 1] - ftd[pos] >= 1 THEN <<"&">> ELSE <<>>)]
    \o << SubSeq(line, Last(ftd) + 1, Len(line)) >>

\* format_single_fline on the characters of a logical line
format_text(f_line, density, breaks, seps, auto_format) ==
    CHOOSE r \in
        { [failed |-> sh.failed,
           lines  |-> IF sh.failed THEN <<>> ELSE LinesOut(line, <<0>> \o sh.ftd, seps)] :
          line \in { FormattedLine(f_line, density, auto_format) },
          sh \in { ShiftBreaks(FormattedLine(f_line, density, auto_format), f_line,
                               0, 0, Reverse(breaks), <<>>) } } : TRUE

\* EOL_SC: re.search(r"\s*;\s*$", line), and re.search(r";\s*$", f_line) at
\* the end of the loop of reformat_ffile
EOL_SC(line) == RStripWs(line) /= <<>> /\ Last(RStripWs(line)) = ";"

\* a line terminator after every line
has_nl_always(ls, pos) == TRUE
\* reformat_ffile: has_nl, no line terminator after a last fragment that ends
\* in a statement separator
has_nl(ls, pos) == IF pos < Len(ls) THEN TRUE ELSE ~EOL_SC(ls[pos])

\* reformat_ffile: the comments put back after the formatted fragments
InsertComments(ls, cls) ==
    [pos \in 1..Len(ls) |->
        IF pos <= Len(cls)
        THEN rstrip(ls[pos]) \o cls[pos]
             \o (IF has_nl(ls, pos) THEN <<"\n">> ELSE <<>>)
        ELSE ls[pos]]

\* reformat_ffile: the markers at line starts put back
RecoverAmpersand(line, amp_insert) == amp_insert \o line

\* reformat_ffile: re.sub(r"\s+$", u'\n', l)
DeleteTrailing(line) ==
    IF line /= <<>> /\ Last(line) \in {" ", "\n"} THEN RStripWs(line) \o <<"\n">> ELSE line

\* reformat_ffile: line_length, counted through CharFilter
LineLengthOf(line) == Max(CommentStart(line) - 1, 1)

\* reformat_ffile: what the output guard writes for one line
WriteText(ind_use, line, orig_line) ==
    IF ind_use + LineLengthOf(line) <= Limit
    THEN Spaces(Blanks(ind_use + Len(line) - Len(lstrip(line)))) \o lstrip(line)
    ELSE IF LineLengthOf(line) <= Limit
    THEN Spaces(Blanks(Limit - Len(lstrip(line)))) \o lstrip(line)
    ELSE orig_line

\* the most logical lines read from one file
MaxRegion == 3

\* a physical line: leading blanks, a leading marker with its blanks, the
\* code, the blanks before the trailing marker, the blanks before the
\* comment, the comment, trailing blanks
PhysLine(lead, pre, code, sep, amp, comsep, comment, trail) ==
    Spaces(lead) \o pre \o code
    \o (IF amp THEN Spaces(sep) \o <<"&">> ELSE <<>>)
    \o (IF comment /= <<>> THEN Spaces(comsep) \o comment ELSE <<>>)
    \o Spaces(trail) \o <<"\n">>

CommentTexts == { <<>>, <<"!", "c">> }

\* statements on one physical line
Singles ==
    { << PhysLine(lead, <<>>, <<"x", " ", " ", "=", "x">>, 0, FALSE,
                  comsep, comment, trail) >> :
        lead \in {0, 2}, comsep \in {0, 2}, comment \in CommentTexts,
        trail \in {0, 1} }

\* statements on two physical lines, the second starting with or without a
\* continuation marker
Pairs ==
    { << PhysLine(2, <<>>, <<"x", " ", " ", "=">>, sep, TRUE, 1, comment1, 0),
         PhysLine(4, pre, <<"x">>, 0, FALSE, comsep, comment2, 0) >> :
        sep \in {0, 3}, comment1 \in CommentTexts,
        pre \in { <<>>, <<"&">>, <<"&", " ">> },
        comsep \in {0, 2}, comment2 \in CommentTexts }

StatementLines == Singles \cup Pairs

BlankLines == { << <<"\n">> >>, << <<" ", " ", "\n">> >> }

InitManual ==
    /\ indent_size = DefaultIndent
    /\ scopes = <<>>
    /\ indents = <<0>>
    /\ line_indents = <<>>
    /\ prev_offset = 0
    /\ pending = NoEntry
    /\ hist = InitHist
    /\ file = <<>> /\ pass = 0 /\ pc = "manual" /\ nfl = 0
    /\ req_indents = <<>> /\ first_indent = -1
    /\ out = <<>> /\ out1 = <<>> /\ emitted = NoLine
    /\ AlignIdle
    /\ DestIdle
    /\ FormatIdle
    /\ FlagIdle
    /\ ManualIdle

\* mutant of ValidDirective: no directive is ever rejected
ValidDirectiveAlways(opens, manual) == TRUE
\* reformat_ffile, the checks of the two directives: "!&<" needs the region
\* closed, "!&>" needs it open
ValidDirective(opens, manual) == IF opens THEN ~manual ELSE manual

\* reformat_ffile on a directive line "!&<" or "!&>" at column 0: the
\* directive is checked, then the line is written as an unindented comment
ReadDirective ==
    /\ pc \in {"manual", "closed"} /\ nfl < MaxRegion
    /\ \E d \in {OpenDirective, CloseDirective} :
        LET ls    == << d \o <<"\n">> >>
            opens == StartsWith(StripWs(ls[1]), OpenDirective)
            valid == ValidDirective(opens, in_manual_block)
        IN  /\ orig_lines' = ls
            /\ nfl' = nfl + 1
            /\ IF ~valid
               THEN /\ pc' = "error"
                    /\ written' = <<>>
                    /\ UNCHANGED <<in_manual_block, skip_blank>>
               ELSE /\ in_manual_block' = opens
                    /\ pc' = IF opens THEN "manual" ELSE "closed"
                    /\ written' = << WriteText(0, DeleteTrailing(strip(ls[1])), ls[1]) >>
                    /\ skip_blank' = FALSE
    /\ UNCHANGED <<trackVars, file, pass, req_indents, first_indent, out, out1,
                   emitted, alignVars>>
    /\ UNCHANGED <<destVars, formatVars, flagVars>>

\* reformat_ffile on a blank line inside the region: it is skipped after
\* another blank line and written without its blanks otherwise
ReadBlank ==
    /\ pc = "manual" /\ nfl < MaxRegion /\ in_manual_block
    /\ \E ls \in BlankLines :
        LET nf == next_fortran_line(ls)
        IN  /\ IsEmpty(nf.f_line)
            /\ orig_lines' = ls
            /\ nfl' = nfl + 1
            /\ IF skip_blank
               THEN written' = <<>> /\ UNCHANGED skip_blank
               ELSE /\ written' = << WriteText(0, DeleteTrailing(strip(ls[1])), ls[1]) >>
                    /\ skip_blank' = TRUE
    /\ UNCHANGED <<trackVars, file, pass, pc, req_indents, first_indent, out, out1,
                   emitted, alignVars, in_manual_block>>
    /\ UNCHANGED <<destVars, formatVars, flagVars>>

\* reformat_ffile on the lines of a statement, from the stream to the
\* deletion of trailing whitespace: the lines to write, the indents given
\* to the indenter, the raises
ManualText(ls, manual_block) ==
    LET nf  == next_fortran_line(ls)
        cls == comment_lines(ls, [i \in 1..Len(ls) |-> CommentOf(ls[i])])
        pre == [i \in 1..Len(ls) |-> PreAmpersand(ls[i])]
    IN  CHOOSE t \in
            { [is_empty |-> IsEmpty(nf.f_line),
               bad      |-> BadContinuation(nf.lines),
               failed   |-> fmt.failed,
               manual_lines_indent |-> manual_lines_indent(nf.lines),
               pre_ampersand |-> pre,
               lines    |-> [i \in 1..Len(fmt.lines) |->
                               DeleteTrailing(
                                  IF pre[i] /= <<>>
                                  THEN RecoverAmpersand(InsertComments(fmt.lines, cls)[i],
                                                        pre[i])
                                  ELSE InsertComments(fmt.lines, cls)[i])]] :
              fmt \in { format_text(strip(nf.f_line), 2, linebreak_pos(nf.lines),
                                    ampersand_sep(nf.lines),
                                    AutoFormat(manual_block, cls)) } } : TRUE

\* reformat_ffile on a statement inside the region.  first_indent, which
\* inspect_ffile_format takes from the first statement of the file, is
\* recorded when the stream yields that statement; no line before it is
\* written with an indent.
ReadStatement ==
    /\ pc = "manual" /\ nfl < MaxRegion /\ in_manual_block
    /\ \E ls \in StatementLines :
      \E t \in { ManualText(ls, in_manual_block) } :
      \E r \in { process_lines_of_fline(Classify(scopes, <<"x">>), indents,
                                        t.manual_lines_indent, 0) } :
        LET first  == IF first_indent = -1
                      THEN Len(ls[1]) - Len(lstrip(ls[1])) ELSE first_indent
            indent == [i \in 1..Len(t.lines) |->
                          r.line_indents[i] -
                          (IF t.pre_ampersand[i] /= <<>> THEN 1 ELSE 0)]
        IN  /\ ~t.is_empty
            /\ orig_lines' = ls
            /\ nfl' = nfl + 1
            /\ first_indent' = first
            /\ IF t.bad
               THEN /\ pc' = "error" /\ written' = <<>>
                    /\ UNCHANGED <<scopes, indents, line_indents, skip_blank>>
               ELSE IF t.failed
               THEN /\ pc' = "fatal" /\ written' = <<>>
                    /\ UNCHANGED <<scopes, indents, line_indents, skip_blank>>
               ELSE /\ pc' = "manual"
                    /\ scopes' = r.scopes /\ indents' = r.indents
                    /\ line_indents' = r.line_indents
                    /\ written' = [i \in 1..Len(t.lines) |->
                                      WriteText(indent[i] + first, t.lines[i], ls[i])]
                    /\ skip_blank' = FALSE
    /\ UNCHANGED <<indent_size, prev_offset, pending, hist, file, pass, req_indents,
                   out, out1, emitted, alignVars, in_manual_block>>
    /\ UNCHANGED <<destVars, formatVars, flagVars>>

NextManual == ReadDirective \/ ReadBlank \/ ReadStatement

SpecManual == InitManual /\ [][NextManual]_vars

(***************************************************************************)
(* Properties of the tracker.                                              *)
(***************************************************************************)
\* C2: after the last line of a sequence that is properly nested by its
\* classification and leaves no block open, the tracker has not failed, it
\* counted as many opening as valid closing classifications, ScopeStack is
\* empty and IndentStack is [0]
C2_ScopeBalance ==
    (pending.eof /\ hist.last /= "none" /\ hist.wf /\ hist.nest = <<>>)
        => /\ hist.last /= "failed"
           /\ hist.balance = 0
           /\ scopes = <<>>
           /\ indents = <<0>>

\* C3 as stated: an unclassified line in the body of a block is indented by
\* the indent of the block's header plus the configured step (stated for the
\* histories that keep the two stacks in step)
C3_BodyConfiguredStep ==
    (hist.last = "plain" /\ hist.inStep /\ Len(hist.hdrs) > 0)
        => line_indents[1] = Last(hist.hdrs) + indent_size

\* C3 amended: an opening line pushes its own indent plus the step the
\* inspection recorded for the line after it (0 at the end of the file and
\* for a do/if header at the same column, else the configured step), and an
\* unclassified line is indented by the top of IndentStack
C3_BodyRecordedStep ==
    /\ hist.last = "new" =>
          /\ Last(indents) = line_indents[1] + pending.req
          /\ pending.req = (IF pending.eof \/ pending.blocked THEN 0 ELSE indent_size)
    /\ hist.last = "plain" => line_indents[1] = get_fline_indent(indents)
    /\ (hist.last = "plain" /\ hist.inStep /\ Len(hist.hdrs) > 0) =>
          line_indents[1] \in {Last(hist.hdrs), Last(hist.hdrs) + indent_size}

\* a body line of a blocked construct: it stays at the column of its header
C3_Witness ==
    /\ hist.last = "plain" /\ hist.inStep /\ Len(hist.hdrs) = 1
    /\ line_indents[1] = Last(hist.hdrs)
    /\ indents = <<0, 0>>

C5_CloseRule ==
    [][hist'.what_end /= -1 =>
        IF Len(scopes) > 0
        THEN /\ scopes' = Front(scopes)
             /\ IF Last(scopes) = hist'.what_end
                THEN /\ indents' = Front(indents)
                     /\ line_indents'[1] = Last(indents')
                ELSE indents' = indents
        ELSE scopes' = scopes /\ indents' = indents]_vars

(***************************************************************************)
(* Properties of the aligner.                                              *)
(***************************************************************************)
\* the assignment operators of a logical line at nesting level 0
TopLevelOps(items) ==
    {i \in 1..Len(items) : items[i] \in Ops /\ LevelAfter(items, i - 1) = 0}

\* the delimiters of a logical line, in order
Delims(items) == SelectSeq(items, LAMBDA it : it \in Openers \cup Closers)

\* the items of the first fragment of a statement of two fragments
FirstFragment(q) ==
    SubSeq(q, 1, (CHOOSE k \in 1..Len(q) : IsBreak(q[k])) - 1)

\* the index of the only "=" of a line, of the last character of the
\* operator it starts, and of the first character of the right-hand side
EqIndex(line) == CHOOSE p \in 1..Len(line) : line[p] = "="

OpEnd(line) == EqIndex(line) + (IF line[EqIndex(line) + 1] = ">" THEN 1 ELSE 0)

RhsStart(line) == SkipBlanks(line, OpEnd(line) + 1)

\* C6: a logical line with two assignment operators at nesting level 0
\* raises the fatal error, wherever the operators lie and whether or not
\* the line is aligned automatically
C6_TwoAssignmentsFatal ==
    (apc \in {"done", "fatal"} /\ Cardinality(TopLevelOps(ItemsOf(statement))) >= 2)
        => apc = "fatal"

\* C7: a logical line whose opening delimiter is closed by a delimiter of
\* another kind logs exactly one warning and is still emitted, whether the
\* two lie in one fragment or in two (stated for the lines that are aligned
\* automatically and hold at most one assignment)
C7_MismatchOneWarning ==
    (/\ apc \in {"done", "fatal"} /\ auto_align
     /\ Delims(ItemsOf(statement)) = <<"(", "]">>
     /\ Cardinality(TopLevelOps(ItemsOf(statement))) <= 1)
        => /\ apc = "done"
           /\ aligner.warnings + fmt_warnings = 1

\* C8: when the first fragment holds one assignment operator, at level 0
\* and not right before the line break, and leaves no delimiter open, the
\* continuation fragment starts at the column after the operator (the
\* column right after it, or the column of the first character of the
\* right-hand side), at every density level (stated for the lines with one
\* assignment in all)
C8_AlignedAfterAssignment ==
    (/\ apc = "done" /\ auto_align /\ Len(lines) = 2
     /\ Cardinality(TopLevelOps(ItemsOf(statement))) = 1
     /\ LET f == FirstFragment(statement)
        IN  /\ Cardinality({i \in 1..Len(f) : f[i] \in Ops}) = 1
            /\ Cardinality(TopLevelOps(f)) = 1
            /\ Last(f) \notin Ops
            /\ LevelAfter(f, Len(f)) = 0)
        => line_indents[2] + 1 \in {OpEnd(lines[1]) + 1, RhsStart(lines[1])}

(***************************************************************************)
(* Properties of the manual region.                                        *)
(***************************************************************************)
\* a line of the region other than its directives has just been read
InRegion ==
    /\ pc = "manual" /\ in_manual_block /\ orig_lines /= <<>>
    /\ orig_lines[1] /= OpenDirective \o <<"\n">>

SepBeforeAmp(line) == Len(CoreOf(line)) - Len(rstrip(CoreOf(line)))

\* the blanks between the code or the marker of a line and its comment
SepBeforeComment(line) ==
    LET code == SubSeq(line, 1, CommentStart(line) - 1)
    IN  Len(code) - Len(rstrip(code))

DirectiveStep(d) == nfl' = nfl + 1 /\ orig_lines' = << d \o <<"\n">> >>

\* C11: a region-open directive read outside a region enters the manual
\* region and a region-close directive read inside it leaves the region; a
\* region-open directive inside a region and a region-close directive
\* outside any region end the pass with a fatal parse error
C11_DirectiveProtocol ==
    [][ /\ DirectiveStep(OpenDirective)
           => IF in_manual_block THEN pc' = "error"
              ELSE in_manual_block' /\ pc' # "error"
        /\ DirectiveStep(CloseDirective)
           => IF in_manual_block THEN ~in_manual_block' /\ pc' # "error"
              ELSE pc' = "error" ]_vars

\* a region was opened, closed and a second region-close directive was
\* rejected
C11_Witness ==
    /\ pc = "error" /\ ~in_manual_block /\ nfl = 3
    /\ orig_lines = << CloseDirective \o <<"\n">> >>

\* ---------------------------------------------------------------
\* Legacy files and the destination
\* ---------------------------------------------------------------
\* C12: a file with a legacy fixed-column construct is rejected with a fatal
\* parse error before any line is reformatted, and while the pass runs or
\* after it ended in a fatal error nothing has been written to the
\* destination: the destination is written only when the pass is complete
C12_FatalWritesNothing ==
    /\ pc \in {"loop", "fatal"} => (~dest.written /\ dest.text = dest.before)
    /\ (pc /= "inspect" /\ \E i \in 1..Len(file) : F77_STYLE(file[i].toks))
          => (pc = "fatal" /\ nfl = 0 /\ out = <<>>)

\* the pass ended in a fatal error at the third line, after two lines were
\* reformatted, and the file, which is the destination, holds what it held
C12_Witness ==
    /\ pc = "fatal" /\ nfl = 3 /\ Len(out) = 2
    /\ ~dest.stdout /\ dest.text = file /\ ~dest.written

(***************************************************************************)
(* format_single_fline called on its own: a logical line, a density, the   *)
(* offsets of its line breaks and the blanks before each marker.           *)
(***************************************************************************)
\* the tokens of the statements
Operands == { <<"a">>, <<"1", "0">> }

PlusMinus == { <<"+">>, <<"-">> }

Relational == { <<"<">>, <<".", "g", "t", ".">>, <<"=", "=">> }

Logical == { <<".", "o", "r", ".">> }

Commas == { <<",">> }

\* the statements: an assignment of two operands joined by an operator, an
\* assignment of a function call and a conditional header
TokenLines ==
    { << <<"x">>, <<"=">>, A, op, B >> :
        A \in Operands, B \in Operands, op \in PlusMinus \cup Relational }
    \cup { << <<"x">>, <<"=">>, <<"a">>, op, <<"b">> >> : op \in Logical }
    \cup { << <<"x">>, <<"=">>, <<"f">>, <<"(">>, <<"a">>, <<",">>, <<"b">>, <<")">>,
              <<"+">>, <<"b">> >>,
           << <<"i", "f">>, <<"(">>, <<"a">>, <<".", "g", "t", ".">>, <<"b">>, <<")">>,
              <<"t", "h", "e", "n">> >> }

\* the tokens written one after the other with gaps[i] blanks before token i
JoinTokens(toks, gaps) ==
    Join([i \in 1..Len(toks) |-> (IF i = 1 THEN <<>> ELSE Spaces(gaps[i])) \o toks[i]])

\* the offset of the last character of token k in the line whose tokens are
\* separated by n blanks; -1 for k = 0
EndOffset(toks, n, k) == Len(JoinTokens(SubSeq(toks, 1, k), [i \in 1..k |-> n])) - 1

\* the offsets of the line breaks of a statement: none, one after token k
\* (before the first token if a comment line precedes the statement), or two
\* at the same offset (a comment line lies between two fragments)
BreakOffsets(toks, n) ==
    { <<>> }
    \cup { << EndOffset(toks, n, k) >> : k \in 0..(Len(toks) - 1) }
    \cup { << EndOffset(toks, n, k), EndOffset(toks, n, k) >> : k \in 1..(Len(toks) - 1) }

\* the logical lines: the tokens of a statement separated by 0, 1 or 2
\* blanks, with the offsets of the breaks and, for every break, the blanks
\* to put before the continuation marker
FormatInputs ==
    UNION { { [toks |-> toks, f_line |-> JoinTokens(toks, [i \in 1..Len(toks) |-> n]),
               whitespace |-> w, linebreak_pos |-> b,
               ampersand_sep |-> [i \in 1..Len(b) |-> s],
               auto_format |-> af] :
              b \in BreakOffsets(toks, n), s \in {1, 3}, w \in 0..2, af \in BOOLEAN } :
            toks \in TokenLines, n \in 0..2 }

InitFormat ==
    /\ indent_size = DefaultIndent
    /\ scopes = <<>>
    /\ indents = <<0>>
    /\ line_indents = <<>>
    /\ prev_offset = 0
    /\ pending = NoEntry
    /\ hist = InitHist
    /\ file = <<>> /\ pass = 0 /\ pc = "format" /\ nfl = 0
    /\ req_indents = <<>> /\ first_indent = -1
    /\ out = <<>> /\ out1 = <<>> /\ emitted = NoLine
    /\ AlignIdle
    /\ DestIdle
    /\ ManualIdle
    /\ FlagIdle
    /\ fmt_in \in FormatInputs
    /\ fmt_out = NoCall

\* one call of format_single_fline
FormatSingle ==
    /\ pc = "format"
    /\ pc' = "formatted"
    /\ fmt_out' = format_text(fmt_in.f_line, fmt_in.whitespace, fmt_in.linebreak_pos,
                              fmt_in.ampersand_sep, fmt_in.auto_format)
    /\ UNCHANGED <<trackVars, file, pass, nfl, req_indents, first_indent, out, out1,
                   emitted, alignVars, manualVars, destVars, fmt_in, flagVars>>

NextFormat == FormatSingle

SpecFormat == InitFormat /\ [][NextFormat]_vars

\* ---------------------------------------------------------------
\* The density table
\* ---------------------------------------------------------------
\* the blanks the density table asks for between token A and the token B
\* that follows it: spacey[k] around the operators of category k, none
\* inside delimiters, one before the delimiter of a conditional header
TableGap(A, B, density) ==
    LET sp == spacey(density)
    IN  IF A \in Commas THEN sp[1]
        ELSE IF B \in Commas THEN 0
        ELSE IF <<"=">> \in {A, B} THEN sp[2]
        ELSE IF {A, B} \cap Relational /= {} THEN sp[3]
        ELSE IF {A, B} \cap Logical /= {} THEN sp[4]
        ELSE IF {A, B} \cap PlusMinus /= {} THEN sp[5]
        ELSE IF A = <<"(">> \/ B = <<")">> THEN 0
        ELSE IF B = <<"(">> THEN (IF A = <<"i", "f">> THEN 1 ELSE 0)
        ELSE 1

\* C13: the formatter leaves no blanks around operators and after commas at
\* density 0; at density 1 one blank around assignment, relational and
\* logical operators and after commas, none around binary plus and minus;
\* at density 2 one blank around all of them
C13_DensityTable ==
    (pc = "formatted" /\ fmt_in.auto_format /\ fmt_in.linebreak_pos = <<>>) =>
        /\ ~fmt_out.failed
        /\ fmt_out.lines =
              << JoinTokens(fmt_in.toks,
                            [i \in 1..Len(fmt_in.toks) |->
                                IF i = 1 THEN 0
                                ELSE TableGap(fmt_in.toks[i - 1], fmt_in.toks[i],
                                              fmt_in.whitespace)]) >>

\* ---------------------------------------------------------------
\* Failure of the tracker
\* ---------------------------------------------------------------
\* C14: for a logical line of at least one fragment and any stacks that a
\* sequence of lines can produce, the call of the tracker does not fail: it
\* returns the indents of the line
C14_NeverFatal ==
    hist.last /= "none" =>
        /\ hist.last /= "failed"
        /\ Len(line_indents) >= 1

\* ---------------------------------------------------------------
\* The aligner at the end of a fragment
\* ---------------------------------------------------------------
\* the statement has neither delimiters nor assignment operators: no frame
\* is ever open and no target is ever pending
NoFrameNoTarget(q) == \A k \in 1..Len(q) : q[k] \notin Ops \cup Openers \cup Closers

OpenerAtBreak(q) == \E k \in 2..Len(q) : IsBreak(q[k]) /\ q[k - 1] \in Openers

\* the target that encloses the opening delimiter at the end of the first
\* fragment: the last entry of the list when the scan of the fragment
\* arrives at that delimiter, 0 if nothing is open or pending there
EnclosingTarget(line) ==
    Last(AlignLoop(Front(BeforeBreak(line)), 1, FALSE,
                   StartOfFragment(init_line)).indent_list)

\* C16 as stated: after a fragment that ends with an opening delimiter
\* directly before the continuation marker the offset of the next fragment
\* is the target that encloses the delimiter, 0 if there is none
C16_EnclosingOrZero ==
    (apc = "done" /\ auto_align /\ OpenerAtBreak(statement)) =>
        aligner.line_indents[2] = EnclosingTarget(lines[1])

\* C16 amended: the offset of the next fragment is the target that encloses
\* the delimiter, and the step when there is none
C16_EnclosingOrStep ==
    (apc = "done" /\ auto_align /\ OpenerAtBreak(statement)) =>
        aligner.line_indents[2] =
            (IF EnclosingTarget(lines[1]) = 0 THEN indent_size
             ELSE EnclosingTarget(lines[1]))

\* a statement broken after the opening delimiter of its left-hand side,
\* which nothing encloses, was aligned
C16_Witness ==
    /\ apc = "done" /\ auto_align
    /\ statement = <<"x", "(", "&", "x", ")", "=", "x">>
    /\ EnclosingTarget(lines[1]) = 0
    /\ aligner.line_indents = <<0, indent_size>>

\* the frames left open by a sequence of delimiters when a closing delimiter
\* pops the innermost frame only if the kinds match, and the number of
\* closing delimiters that popped nothing
RECURSIVE FramesIfMatched(_, _)
FramesIfMatched(delims, st) ==
    IF delims = <<>> THEN st
    ELSE LET d == Head(delims)
         IN  FramesIfMatched(Tail(delims),
                IF d \in Openers THEN [st EXCEPT !.frames = Append(@, d)]
                ELSE IF st.frames /= <<>> /\ ValidPair(Last(st.frames), d)
                THEN [st EXCEPT !.frames = Front(@)]
                ELSE [st EXCEPT !.unpaired = @ + 1])

\* C17: a closing delimiter pops the innermost frame only if the kinds
\* match; when they differ, or when no frame is open, the frame stack is kept
\* and a warning is logged, and the line is aligned all the same
C17_PopOnlyOnMatch ==
    (apc \in {"done", "fatal"} /\ auto_align /\ Cardinality(TopLevelOps(ItemsOf(statement))) = 1) =>
        LET f == FramesIfMatched(Delims(ItemsOf(statement)), [frames |-> <<>>, unpaired |-> 0])
        IN  /\ apc = "done"
            /\ aligner.level = Len(f.frames)
            /\ f.unpaired > 0 => aligner.warnings > 0

\* ---------------------------------------------------------------------
\* the continuation markers put back by format_single_fline

\* physical line pos of the result ends with the padding asked for break pos
\* followed by a continuation marker
EndsWithMarker(ls, seps, pos) ==
    LET l == ls[pos]
        n == Len(l)
    IN  /\ n >= seps[pos] + 1
        /\ l[n] = "&"
        /\ SubSeq(l, n - seps[pos], n - 1) = Spaces(seps[pos])

\* the slice before break pos is empty: the break lies at the offset of the
\* break before it, or before the first character of the text
EmptySlice(breaks, pos) ==
    breaks[pos] = (IF pos = 1 THEN -1 ELSE breaks[pos - 1])

\* C18 as stated: the formatter returns one line more than it was given
\* break offsets, and every line but the last ends with the requested
\* padding followed by a continuation marker, the empty slices included.
C18_MarkerOnEverySlice ==
    (pc = "formatted" /\ ~fmt_out.failed) =>
        /\ Len(fmt_out.lines) = Len(fmt_in.linebreak_pos) + 1
        /\ \A pos \in 1..Len(fmt_in.linebreak_pos) :
              EndsWithMarker(fmt_out.lines, fmt_in.ampersand_sep, pos)

\* C18 amended: the formatter returns one line more than it was given break
\* offsets; a line but the last whose slice is not empty is the slice without
\* trailing blanks, the requested padding and a continuation marker; a line
\* whose slice is empty is the requested padding alone, with no marker.
C18_MarkerOnNonEmptySlice ==
    (pc = "formatted" /\ ~fmt_out.failed) =>
        /\ Len(fmt_out.lines) = Len(fmt_in.linebreak_pos) + 1
        /\ \A pos \in 1..Len(fmt_in.linebreak_pos) :
              IF EmptySlice(fmt_in.linebreak_pos, pos)
              THEN fmt_out.lines[pos] = Spaces(fmt_in.ampersand_sep[pos])
              ELSE /\ EndsWithMarker(fmt_out.lines, fmt_in.ampersand_sep, pos)
                   /\ Len(fmt_out.lines[pos]) >= fmt_in.ampersand_sep[pos] + 2
                   /\ fmt_out.lines[pos][Len(fmt_out.lines[pos])
                                         - fmt_in.ampersand_sep[pos] - 1] /= " "

\* a statement broken twice at the same offset: the line between the two
\* breaks is the padding alone
C18_Witness ==
    /\ pc = "formatted"
    /\ fmt_in.f_line = <<"x", "=", "a", "+", "a">>
    /\ fmt_in.whitespace = 2
    /\ fmt_in.linebreak_pos = <<2, 2>>
    /\ fmt_in.ampersand_sep = <<1, 1>>
    /\ fmt_out.lines = << <<"x", " ", "=", " ", "a", " ", "&">>, <<" ">>,
                          <<"+", " ", "a">> >>

(***************************************************************************)
(* The loop of reformat_ffile over the logical lines of a stream: blank    *)
(* lines, comment lines, directives, preprocessor lines and statements on  *)
(* one physical line, some of them ended by a statement separator.  A      *)
(* logical line that ends in a separator is the piece of its physical line *)
(* up to the separator; the rest of the physical line is the next logical  *)
(* line.  The file starts at column 0 and the inspection recorded the      *)
(* configured step for every line after an opening line.                   *)
(***************************************************************************)
\* the most logical lines read from the stream
MaxStream == 4

\* the code of the statements of the stream and the tokens the classifier sees
StreamCodes ==
    { [code |-> <<"x", " ", " ", "=", "x">>, toks |-> <<"x">>],
      [code |-> <<"d", "o">>, toks |-> <<"DO">>],
      [code |-> <<"e", "n", "d", " ", "d", "o">>, toks |-> <<"END", "DO">>] }

StreamLines ==
    { [ls |-> ls, toks |-> <<>>] : ls \in BlankLines }
    \cup { [ls |-> << Spaces(lead) \o s.code \o end >>, toks |-> s.toks] :
             lead \in {0, 2}, s \in StreamCodes, end \in { <<"\n">>, <<";">> } }
    \cup { [ls |-> << Spaces(lead) \o <<"!", "c", "\n">> >>, toks |-> <<>>] :
             lead \in {0, 2} }
    \cup { [ls |-> << d \o <<"\n">> >>, toks |-> <<>>] :
             d \in {OpenDirective, CloseDirective} }
    \cup { [ls |-> << <<"#", "x", "\n">> >>, toks |-> <<>>] }

\* a logical line that is blank and has no comment
IsBlankLine(ls) == Len(ls) = 1 /\ StripWs(ls[1]) = <<>>

\* skip_blank is never set
skip_blank_never(is_empty, comments) == FALSE
\* reformat_ffile: skip_blank = is_empty and not any(comments)
skip_blank_after(is_empty, comments) ==
    is_empty /\ ~\E i \in 1..Len(comments) : comments[i] /= <<>>

\* reformat_ffile: ind_use of a line
IndUse(do_ind, same_line, ind, first) ==
    IF do_ind THEN ind + first ELSE IF same_line THEN 1 ELSE 0

\* reformat_ffile: one iteration of the loop on the logical line ls, from the
\* state the iteration before left
LoopBody(ls, toks, manual, skip, do_ind, same_line, sc, ind, first, size) ==
    LET nf       == next_fortran_line(ls)
        head     == StripWs(ls[1])
        opens    == Len(ls) = 1 /\ StartsWith(head, OpenDirective)
        closes   == Len(ls) = 1 /\ StartsWith(head, CloseDirective)
        valid    == /\ opens => ValidDirective(TRUE, manual)
                    /\ closes => ValidDirective(FALSE, manual)
        manual1  == IF opens THEN TRUE ELSE IF closes THEN FALSE ELSE manual
        is_empty == IsEmpty(nf.f_line)
        any_comments == \E i \in 1..Len(ls) : nf.comments[i] /= <<>>
        same1    == EOL_SC(nf.f_line)
        skip1    == skip_blank_after(is_empty, nf.comments)
        base     == [raised |-> FALSE, continue |-> FALSE, in_manual_block |-> manual1,
                     skip_blank |-> skip1, do_indent |-> ~same1,
                     use_same_line |-> same1, scopes |-> sc, indents |-> ind,
                     line_indents |-> <<>>, written |-> <<>>]
        stop     == [base EXCEPT !.raised = TRUE]
    IN  IF ~valid THEN stop
        ELSE IF StartsWith(ls[1], <<"#">>)
        THEN IF Len(ls) /= 1 THEN stop
             ELSE [base EXCEPT !.written =
                      [i \in 1..Len(ls) |->
                          WriteText(IndUse(FALSE, same_line, 0, first),
                                    DeleteTrailing(ls[i]), ls[i])]]
        ELSE IF is_empty
        THEN IF Len(ls) /= 1 THEN stop
             ELSE IF ~any_comments /\ skip
             THEN [base EXCEPT !.continue = TRUE, !.skip_blank = skip,
                               !.do_indent = do_ind, !.use_same_line = same_line]
             ELSE LET do1  == IF any_comments /\ ~StartsWith(ls[1], <<"!">>)
                              THEN do_ind ELSE FALSE
                      ind1 == IF any_comments /\ ~StartsWith(ls[1], <<"!">>)
                              THEN get_fline_indent(ind) ELSE 0
                  IN  [base EXCEPT !.written =
                          << WriteText(IndUse(do1, same_line, ind1, first),
                                       DeleteTrailing(strip(ls[1])), ls[1]) >>]
        ELSE CHOOSE b \in
                { IF t.bad \/ t.failed \/ r.failed THEN stop
                  ELSE [base EXCEPT
                          !.scopes = r.scopes, !.indents = r.indents,
                          !.line_indents = r.line_indents,
                          !.written =
                             [i \in 1..Len(t.lines) |->
                                WriteText(IndUse(do_ind, same_line,
                                                 r.line_indents[i] -
                                                 (IF t.pre_ampersand[i] /= <<>>
                                                  THEN 1 ELSE 0),
                                                 first),
                                          t.lines[i], ls[i])]] :
                  t \in { ManualText(ls, manual) },
                  r \in { process_lines_of_fline(Classify(sc, toks), ind,
                                                 BrList(Len(ls), size), size) } } : TRUE

InitLines ==
    /\ indent_size = DefaultIndent
    /\ scopes = <<>>
    /\ indents = <<0>>
    /\ line_indents = <<>>
    /\ prev_offset = 0
    /\ pending = NoEntry
    /\ hist = InitHist
    /\ file = <<>> /\ pass = 0 /\ pc = "lines" /\ nfl = 0
    /\ req_indents = <<>> /\ first_indent = 0
    /\ out = <<>> /\ out1 = <<>> /\ emitted = NoLine
    /\ AlignIdle
    /\ DestIdle
    /\ FormatIdle
    /\ ManualIdle
    /\ FlagIdle

\* reformat_ffile: the stream yields a logical line and the loop body runs
NextLine ==
    /\ pc = "lines" /\ nfl < MaxStream
    /\ \E l \in StreamLines :
       \E b \in { LoopBody(l.ls, l.toks, in_manual_block, skip_blank, do_indent,
                           use_same_line, scopes, indents, first_indent,
                           indent_size) } :
        /\ orig_lines' = l.ls
        /\ nfl' = nfl + 1
        /\ written' = b.written
        /\ IF b.raised
           THEN /\ pc' = "error"
                /\ UNCHANGED <<scopes, indents, line_indents, in_manual_block,
                               skip_blank, flagVars>>
           ELSE /\ pc' = "lines"
                /\ in_manual_block' = b.in_manual_block
                /\ skip_blank' = b.skip_blank
                /\ do_indent' = b.do_indent
                /\ use_same_line' = b.use_same_line
                /\ scopes' = b.scopes /\ indents' = b.indents
                /\ line_indents' = IF b.continue THEN line_indents ELSE b.line_indents
    /\ UNCHANGED <<indent_size, prev_offset, pending, hist, file, pass, req_indents,
                   first_indent, out, out1, emitted, alignVars, destVars, formatVars>>

\* reformat_ffile: the stream yields no line and the loop ends
EndOfStream ==
    /\ pc = "lines"
    /\ pc' = "done"
    /\ UNCHANGED <<trackVars, file, pass, nfl, req_indents, first_indent, out, out1,
                   emitted, alignVars, manualVars, destVars, formatVars, flagVars>>

NextLines == NextLine \/ EndOfStream

SpecLines == InitLines /\ [][NextLines]_vars

\* ---------------------------------------------------------------------
\* blank lines and statement separators in the loop of reformat_ffile

\* C19: a blank, comment-free logical line that follows another one is
\* dropped: nothing is written for it and the indent flag, the same-line
\* flag, the manual-region flag, ScopeStack and IndentStack stay as they
\* were; a blank line that does not follow a blank line is written as one
\* line, a line terminator (after one blank when the line before ended in a
\* statement separator).  A run of blank lines so gives one line.
C19_BlankRunsCollapse ==
    [][ (pc = "lines" /\ pc' = "lines" /\ nfl' = nfl + 1 /\ IsBlankLine(orig_lines')) =>
            IF IsBlankLine(orig_lines)
            THEN /\ written' = <<>>
                 /\ UNCHANGED <<do_indent, use_same_line, in_manual_block,
                                scopes, indents>>
            ELSE written' \in { << <<"\n">> >>, << <<" ", "\n">> >> } ]_vars

\* the second blank line after the header of a block: nothing was written
\* for it and the block is still open
C19_Witness ==
    /\ pc = "lines" /\ nfl = 3
    /\ IsBlankLine(orig_lines)
    /\ written = <<>>
    /\ skip_blank
    /\ scopes /= <<>>
    /\ indents = <<0, DefaultIndent>>
    /\ do_indent /\ ~use_same_line

\* the logical line is the piece of a physical line that a statement
\* separator ends
SeparatorPiece(ls) == ls /= <<>> /\ Last(Last(ls)) = ";"

\* the blanks a written line starts with
LeadOf(line) == Len(line) - Len(lstrip(line))

\* C20: after a logical line that ends in a statement separator the
\* same-line flag is set and the indent flag is off, and what was written for
\* the line has no line terminator; after a logical line that does not end
\* in a separator the same-line flag is off and the indent flag is on; what
\* is written for a line read with the same-line flag set starts with one
\* blank, whatever the indent of the block.
C20_SameLine ==
    [][ (pc = "lines" /\ pc' = "lines" /\ nfl' = nfl + 1) =>
            /\ IF SeparatorPiece(orig_lines')
               THEN /\ use_same_line' /\ ~do_indent'
                    /\ written' /= <<>>
                    /\ Last(Last(written')) /= "\n"
               ELSE ~use_same_line' /\ do_indent'
            /\ (use_same_line /\ written' /= <<>>) =>
                  \A i \in 1..Len(written') : LeadOf(written'[i]) = 1 ]_vars

\* in the body of a block, the statement after a statement that a separator
\* ended: it is written after one blank, not at the indent of the body, and
\* the flags are back
C20_Witness ==
    /\ pc = "lines" /\ nfl = 3
    /\ indents = <<0, DefaultIndent>>
    /\ orig_lines = << <<"x", " ", " ", "=", "x", "\n">> >>
    /\ written = << <<" ", "x", " ", "=", " ", "x", "\n">> >>
    /\ do_indent /\ ~use_same_line

\* ---------------------------------------------------------------------
\* the depths of the two stacks of the indenter

\* C21: after any sequence of lines of which none opens two kinds of block,
\* the indenter has not failed on indents[-2], IndentStack is not empty and
\* has at least one entry more than ScopeStack, and exactly one more while
\* no line was an invalid close
C21_StackDepth ==
    hist.oneNew =>
        /\ hist.last /= "failed"
        /\ Len(indents) >= 1
        /\ Len(indents) >= Len(scopes) + 1
        /\ hist.noBadEnd => Len(indents) = Len(scopes) + 1

\* a valid close after an invalid one: indents[-2] was read, no block is
\* open and IndentStack holds one entry more than its base
C21_Witness ==
    /\ hist.oneNew /\ ~hist.noBadEnd
    /\ hist.last = "end"
    /\ scopes = <<>>
    /\ Len(indents) = 2

\* ---------------------------------------------------------------------
\* the stack and the level of the aligner while a logical line is scanned

\* __align_line_continuations: the states of the loop over the characters of
\* a fragment, one after every character
RECURSIVE ScanFragment(_, _, _, _, _)
ScanFragment(line, p, is_decl, st, acc) ==
    IF p > Len(line) \/ st.fatal THEN acc
    ELSE CHOOSE r \in { ScanFragment(line, p + 1, is_decl, s, Append(acc, s)) :
                            s \in { AlignChar(line, p, is_decl, st) } } : TRUE

\* F90Aligner.process_lines_of_fline: the states of the scan of all
\* fragments, those at the start of a fragment included
RECURSIVE ScanLine(_, _, _, _, _, _)
ScanLine(al, ls, pos, is_decl, rel_ind, acc) ==
    IF pos > Len(ls) \/ al.fatal THEN acc
    ELSE CHOOSE r \in
            { ScanLine(IF ~a.fatal /\ pos < Len(ls)
                       THEN [a EXCEPT !.line_indents = Append(@, Last(a.br_indent_list))]
                       ELSE a,
                       ls, pos + 1, is_decl, rel_ind,
                       ScanFragment(ls[pos], 1, is_decl, StartOfFragment(al),
                                    Append(acc, StartOfFragment(al)))) :
              a \in { align_line_continuations(al, ls[pos], is_decl, rel_ind) } } : TRUE

\* the entries of the stack that are neither its base nor delimiter frames,
\* if the level counts the frames: the assignment and declaration targets
TargetsOf(st) == Len(st.indent_list) - 1 - st.level

\* C22: at every point of the scan of a logical line the level is not
\* negative and the stack holds its base, the targets and as many delimiter
\* frames as the level says; a target is pushed only at level 0, below every
\* frame, and no step pops the base or a target; and what the aligner
\* returns for a logical line is what a new aligner returns for it, whatever
\* the logical line before left open.
C22_FrameInvariant ==
    (apc = "done" /\ auto_align) =>
        LET trace == ScanLine(init_line, lines, 1, IsDecl(statement), indent_size, <<>>)
        IN  /\ aligner = Aligner_process_lines_of_fline(init_line, lines,
                                                        IsDecl(statement), indent_size)
            /\ \A k \in 1..Len(trace) :
                  /\ trace[k].level >= 0
                  /\ TargetsOf(trace[k]) >= 0
            /\ \A k \in 1..(Len(trace) - 1) :
                  /\ TargetsOf(trace[k + 1]) >= TargetsOf(trace[k])
                  /\ TargetsOf(trace[k + 1]) > TargetsOf(trace[k])
                        => trace[k + 1].level = 0

\* a declaration read as the second logical line: its delimiter is opened
\* above the pending declaration target and closed on the continuation
\* line, which leaves the base and the target on the stack
C22_Witness ==
    /\ apc = "done" /\ auto_align /\ nfl = 1
    /\ statement = <<"x", "::", "x", "(", "x", "&", "x", ")">>
    /\ aligner.level = 0
    /\ Len(aligner.br_indent_list) = 2
    /\ Len(aligner.line_indents) = 2

=========================================================================
